---- MODULE Spec2Model ----
(***************************************************************************)
(* Chapter segmentation of AudioBookPython: parse_epub_content              *)
(* (app/services/epub_parser.py) and parse_epub_content_spine               *)
(* (app/services/epub_parser_spine.py), as a state machine over calls that  *)
(* each write the uploaded bytes to a file, read the book back and extract  *)
(* its chapters.                                                            *)
(***************************************************************************)
EXTENDS Integers, Sequences, FiniteSets, TLC

(***************************************************************************)
(* TEXT.  A Python str is a sequence of runs [k, n]:                        *)
(*   k = "SP"  n blanks (whitespace other than a line break)                *)
(*   k = "NL"  n line breaks                                                *)
(*   k = "X"   n characters that are neither whitespace nor part of any     *)
(*             word the program looks for                                   *)
(*   k = "D"   the decimal digits of the number n                           *)
(*   k = "U"   the 36 characters of str(uuid4()), n naming the value        *)
(*   any other k is that literal word in lower case; n is its casing        *)
(*             (0 lower, 1 Capitalized, 2 UPPER)                            *)
(***************************************************************************)
Run(k, n) == [k |-> k, n |-> n]
Sp(n) == Run("SP", n)
Nl(n) == Run("NL", n)
X(n) == Run("X", n)
D(n) == Run("D", n)
Lit(w) == Run(w, 0)

IsWs(r) == r.k \in {"SP", "NL"}

\* the literal words that are punctuation (not \w)
Punct == {"-", ":", ".", "!", "?", "\"", "[", "]"}

NumDigits(n) == IF n < 10 THEN 1 ELSE IF n < 100 THEN 2 ELSE IF n < 1000 THEN 3 ELSE 4

\* len() of one run
RunLen(r) ==
  CASE r.k \in {"SP", "NL", "X"} -> r.n
    [] r.k = "D" -> NumDigits(r.n)
    [] r.k = "U" -> 36
    [] OTHER -> Len(r.k)

\* len(text): the lengths of the runs lo..hi, summed by halves
RECURSIVE SumLen(_, _, _)
SumLen(t, lo, hi) ==
  IF lo > hi THEN 0
  ELSE IF lo = hi THEN RunLen(t[lo])
  ELSE SumLen(t, lo, (lo + hi) \div 2) + SumLen(t, (lo + hi) \div 2 + 1, hi)

TextLen(t) == SumLen(t, 1, Len(t))

\* str.lstrip() / str.rstrip() / str.strip(): whitespace runs at the two ends go
RECURSIVE LStrip(_)
LStrip(t) == IF t = <<>> THEN <<>>
             ELSE IF IsWs(Head(t)) \/ RunLen(Head(t)) = 0 THEN LStrip(Tail(t)) ELSE t

RECURSIVE RStrip(_)
RStrip(t) == IF t = <<>> THEN <<>>
             ELSE IF IsWs(t[Len(t)]) \/ RunLen(t[Len(t)]) = 0
                  THEN RStrip(SubSeq(t, 1, Len(t) - 1)) ELSE t

Strip(t) == RStrip(LStrip(t))

\* re.sub(r'\s+', ' ', text): every maximal stretch of whitespace becomes one blank
RECURSIVE CollapseWs(_)
CollapseWs(t) ==
  IF t = <<>> THEN <<>>
  ELSE IF IsWs(Head(t)) THEN <<Sp(1)>> \o CollapseWs(LStrip(t))
  ELSE <<Head(t)>> \o CollapseWs(Tail(t))

\* str.strip('\n\r'): only line breaks at the two ends go
RECURSIVE LStripNl(_)
LStripNl(t) == IF t = <<>> THEN <<>>
               ELSE IF Head(t).k = "NL" THEN LStripNl(Tail(t)) ELSE t

RECURSIVE RStripNl(_)
RStripNl(t) == IF t = <<>> THEN <<>>
               ELSE IF t[Len(t)].k = "NL" THEN RStripNl(SubSeq(t, 1, Len(t) - 1)) ELSE t

StripNl(t) == RStripNl(LStripNl(t))

\* text.replace('\n', ' '): a run of n line breaks becomes n blanks
ReplaceNl(t) == [i \in 1..Len(t) |-> IF t[i].k = "NL" THEN Sp(t[i].n) ELSE t[i]]

\* "".join(texts)
RECURSIVE JoinTexts(_)
JoinTexts(ts) == IF ts = <<>> THEN <<>> ELSE Head(ts) \o JoinTexts(Tail(ts))

\* text[:n]: the first n characters; a literal word cut short is no longer
\* that word, a number cut short keeps its leading digits
RECURSIVE Pow10(_)
Pow10(e) == IF e = 0 THEN 1 ELSE 10 * Pow10(e - 1)

CutRun(r, n) ==
  CASE r.k \in {"SP", "NL", "X"} -> Run(r.k, n)
    [] r.k = "D" -> D(r.n \div Pow10(NumDigits(r.n) - n))
    [] OTHER -> X(n)

\* the first n characters of the runs lo..hi, found by halves
RECURSIVE TakeFrom(_, _, _, _)
TakeFrom(t, lo, hi, n) ==
  IF lo > hi \/ n <= 0 THEN <<>>
  ELSE IF lo = hi THEN (IF RunLen(t[lo]) <= n THEN <<t[lo]>> ELSE <<CutRun(t[lo], n)>>)
  ELSE IF SumLen(t, lo, (lo + hi) \div 2) < n
       THEN SubSeq(t, lo, (lo + hi) \div 2)
            \o TakeFrom(t, (lo + hi) \div 2 + 1, hi, n - SumLen(t, lo, (lo + hi) \div 2))
  ELSE TakeFrom(t, lo, (lo + hi) \div 2, n)

Take(t, n) == TakeFrom(t, 1, Len(t), n)

\* str.lower() / str.upper(): only the casing of the literal words changes
Lower(t) == [i \in 1..Len(t) |-> IF t[i].k \in {"SP", "NL", "X", "D", "U"} THEN t[i]
                                   ELSE Run(t[i].k, 0)]

\* len(text.split()): the maximal stretches without whitespace
WordCount(t) == Cardinality({i \in 1..Len(t) : ~IsWs(t[i]) /\ (i = 1 \/ IsWs(t[i - 1]))})

\* text.lower().count(w) for a literal word w
CountWord(t, w) == Cardinality({i \in 1..Len(t) : t[i].k = w})

\* w in text.lower()
HasWord(t, w) == \E i \in 1..Len(t) : t[i].k = w

\* words in text.lower(), for a phrase of literal words one blank apart
HasPhrase(t, words) ==
  \E i \in 1..Len(t) :
    /\ i + 2 * (Len(words) - 1) <= Len(t)
    /\ \A j \in 1..Len(words) : t[i + 2 * (j - 1)].k = words[j]
    /\ \A j \in 1..(Len(words) - 1) : t[i + 2 * j - 1] = Sp(1)

(***************************************************************************)
(* REGULAR EXPRESSIONS over texts.  A pattern is a sequence of elements:    *)
(*   [op |-> "lit", a |-> {words}]   one of the literal words               *)
(*   [op |-> "sp"]    one blank            [op |-> "ws*"], "ws+"   \s*, \s+  *)
(*   [op |-> "d+"]    \d+                  [op |-> "w+"]           \w+       *)
(*   [op |-> "any+"], "any*"   .+, .* (no line break)                       *)
(*   [op |-> "wb"]    \b before a word                                      *)
(* A position is (i, off): off characters into run i.  The patterns of the  *)
(* program all start with a literal word, so a search tries the runs.       *)
(***************************************************************************)
PLit(ws) == [op |-> "lit", a |-> ws]
POp(o) == [op |-> o, a |-> {}]

IsWordRun(r) == ~IsWs(r) /\ r.k \notin Punct

\* the positions .+ or .* may stop at, from (i, off): any later run start, and
\* the last blank of a run of blanks; none beyond a line break
RECURSIVE NoNlBetween(_, _, _)
NoNlBetween(t, i, j) == IF i >= j THEN TRUE
                        ELSE t[i].k # "NL" /\ NoNlBetween(t, i + 1, j)

RECURSIVE Match(_, _, _, _)
Match(pat, t, i, off) ==
  IF pat = <<>> THEN TRUE
  ELSE LET e == Head(pat)
           rest == Tail(pat)
           atEnd == i > Len(t)
       IN
       CASE e.op = "lit" ->
              ~atEnd /\ off = 0 /\ t[i].k \in e.a /\ Match(rest, t, i + 1, 0)
         [] e.op = "sp" ->
              ~atEnd /\ t[i].k = "SP" /\ off < t[i].n
              /\ (IF off + 1 = t[i].n THEN Match(rest, t, i + 1, 0)
                  ELSE Match(rest, t, i, off + 1))
         [] e.op = "ws*" ->
              IF ~atEnd /\ IsWs(t[i]) THEN Match(pat, t, i + 1, 0)
              ELSE Match(rest, t, i, off)
         [] e.op = "ws+" ->
              ~atEnd /\ IsWs(t[i]) /\ Match(<<POp("ws*")>> \o rest, t, i + 1, 0)
         [] e.op = "d+" ->
              ~atEnd /\ off = 0 /\ t[i].k = "D" /\ Match(rest, t, i + 1, 0)
         [] e.op = "w+" ->
              ~atEnd /\ off = 0 /\ IsWordRun(t[i])
              /\ \E j \in (i + 1)..(Len(t) + 1) :
                   /\ \A m \in i..(j - 1) : IsWordRun(t[m])
                   /\ Match(rest, t, j, 0)
         [] e.op = "wb" ->
              ~atEnd /\ off = 0 /\ IsWordRun(t[i])
              /\ (i = 1 \/ ~IsWordRun(t[i - 1]))
              /\ Match(rest, t, i, off)
         [] e.op \in {"any+", "any*"} ->
              \/ (e.op = "any*" /\ Match(rest, t, i, off))
              \/ \E j \in i..(Len(t) + 1) :
                   /\ NoNlBetween(t, i, j)
                   /\ \/ (j > i /\ Match(rest, t, j, 0))
                      \/ (/\ j <= Len(t) /\ t[j].k = "SP"
                          /\ t[j].n - 1 > (IF j = i THEN off ELSE 0)
                          /\ Match(rest, t, j, t[j].n - 1))
         [] OTHER -> FALSE

\* re.search(pattern, text)
Search(pat, t) == \E i \in 1..Len(t) : Match(pat, t, i, 0)

(***************************************************************************)
(* PATHS.  A file name, an image path and an img src are sequences of       *)
(* one-character strings, so that substring tests and sorting are computed. *)
(***************************************************************************)
IsPrefix(a, b) == Len(a) <= Len(b) /\ SubSeq(b, 1, Len(a)) = a
IsSuffix(a, b) == Len(a) <= Len(b) /\ SubSeq(b, Len(b) - Len(a) + 1, Len(b)) = a
\* Python's  a in b  for two strings
IsInfix(a, b) == \E i \in 0..(Len(b) - Len(a)) : SubSeq(b, i + 1, i + Len(a)) = a

(***************************************************************************)
(* MARKUP.  BeautifulSoup's tree: a node is a text node ("#text"), a        *)
(* comment ("#comment") or an element with a tag name and children; an img  *)
(* carries its src and alt attributes.                                      *)
(***************************************************************************)
Txt(t) == [tag |-> "#text", kids |-> <<>>, text |-> t, src |-> <<>>, alt |-> <<>>]
Cmt(t) == [tag |-> "#comment", kids |-> <<>>, text |-> t, src |-> <<>>, alt |-> <<>>]
El(tag, kids) == [tag |-> tag, kids |-> kids, text |-> <<>>, src |-> <<>>, alt |-> <<>>]
Img(src, alt) == [tag |-> "img", kids |-> <<>>, text |-> <<>>, src |-> src, alt |-> alt]

IsTag(n) == n.tag \notin {"#text", "#comment"}

\* tag.decompose() for every tag of soup(tags): the subtrees are removed
RECURSIVE Decompose(_, _)
Decompose(kids, tags) ==
  IF kids = <<>> THEN <<>>
  ELSE LET h == Head(kids) IN
       (IF h.tag \in tags THEN <<>>
        ELSE <<[h EXCEPT !.kids = Decompose(h.kids, tags)]>>)
       \o Decompose(Tail(kids), tags)

\* get_text(): the text nodes below, in document order, comments left out
RECURSIVE GetText(_)
GetText(kids) ==
  IF kids = <<>> THEN <<>>
  ELSE LET h == Head(kids) IN
       (IF h.tag = "#text" THEN h.text
        ELSE IF h.tag = "#comment" THEN <<>>
        ELSE GetText(h.kids))
       \o GetText(Tail(kids))

\* find_all(tags): the elements below with one of the tags, in document order
RECURSIVE FindAll(_, _)
FindAll(kids, tags) ==
  IF kids = <<>> THEN <<>>
  ELSE LET h == Head(kids) IN
       (IF h.tag \in tags THEN <<h>> ELSE <<>>)
       \o FindAll(h.kids, tags)
       \o FindAll(Tail(kids), tags)

\* BeautifulSoup(content, 'html.parser') raises ParserRejectedMarkup on markup
\* that html.parser gives up on (a malformed declaration such as "<![x"),
\* wherever in the document it stands: Bad(n) is such a declaration of n bytes
Bad(n) == [tag |-> "#rejected", kids |-> <<>>, text |-> <<X(n)>>, src |-> <<>>, alt |-> <<>>]

Raises(content) == FindAll(content, {"#rejected"}) # <<>>

\* str.lower() of a path
UpperChars == <<"A", "B", "C", "D", "E", "F", "G", "H", "I", "J", "K", "L", "M", "N", "O", "P", "Q", "R", "S", "T", "U", "V", "W", "X", "Y", "Z">>
LowerChars == <<"a", "b", "c", "d", "e", "f", "g", "h", "i", "j", "k", "l", "m", "n", "o", "p", "q", "r", "s", "t", "u", "v", "w", "x", "y", "z">>
LowerChar(c) == IF \E i \in 1..26 : UpperChars[i] = c
                THEN LowerChars[CHOOSE i \in 1..26 : UpperChars[i] = c] ELSE c
\* A faulty variant of LowerPath: the path as it stands.
PathAsGiven(p) == p

LowerPath(p) == [i \in 1..Len(p) |-> LowerChar(p[i])]

(***************************************************************************)
(* is_chapter_content (epub_parser.py:175-274)                              *)
(***************************************************************************)
\* epub_parser.py:183
exclude_patterns == {
  <<"c", "o", "v", "e", "r">>,
  <<"t", "o", "c">>,
  <<"c", "o", "n", "t", "e", "n", "t", "s">>,
  <<"c", "o", "p", "y", "r", "i", "g", "h", "t">>,
  <<"t", "i", "t", "l", "e">>,
  <<"t", "h", "a", "n", "k">>,
  <<"o", "c", "e", "a", "n", "o", "f">>}

MinContentBytes == 300
MinTextLen == 200
First300 == 300
First200 == 200
First500 == 500
MinChapterCount == 12
\* chapter_density > 0.02, as chapter_count * DensityDenominator > words
DensityDenominator == 50
StrongIndicatorLen == 500
LongTextLen == 1500
ShortTextLen == 600
\* A faulty variant of FallbackBytes: the minimum size decides.
FallbackBytesAsMinimum == MinContentBytes
FallbackBytes == 800

\* the byte length of a document's markup, as serialized without attributes
\* other than an img's src and alt
RECURSIVE RawLen(_)
RawLen(kids) ==
  IF kids = <<>> THEN 0
  ELSE LET h == Head(kids) IN
       (CASE h.tag = "#text" -> TextLen(h.text)
          [] h.tag = "#comment" -> 7 + TextLen(h.text)
          [] h.tag = "img" -> 20 + Len(h.src) + TextLen(h.alt)
          [] h.tag = "br" -> 5
          [] h.tag = "#rejected" -> TextLen(h.text)
          [] OTHER -> 2 * Len(h.tag) + 5 + RawLen(h.kids))
       + RawLen(Tail(kids))

\* the literal words of the model that start with one of the letters ivxlc
StartsIvxlc == {"chapter", "contents", "coming", "continues", "ch", "copyright",
                "in", "interlude", "it", "looked", "listen",
                "i", "ii", "iii", "iv", "v", "vi", "x", "xi", "l", "c"}

\* A faulty variant of preview_patterns: no preview is recognized.
NoPreviewPatterns == {}

\* epub_parser.py:219-222
preview_patterns == {
  <<PLit({"preview"}), POp("sp"), PLit({"of"}), POp("sp"), POp("any+"), POp("sp"), PLit({"book"})>>,
  <<PLit({"book"}), POp("sp"), POp("w+"), POp("sp"), PLit({"of"}), POp("sp"), POp("any+"),
    POp("sp"), PLit({"series"})>>,
  <<PLit({"coming"}), POp("sp"), PLit({"in"}), POp("sp"), PLit({"book"}), POp("sp"), POp("w+")>>,
  <<PLit({"next"}), POp("sp"), PLit({"book"}), POp("any*"), PLit({":"})>>,
  <<PLit({"continues"}), POp("sp"), PLit({"in"}), POp("any*"), PLit({"book"})>>}

\* epub_parser.py:241-246
extended_patterns == {
  <<PLit({"chapter"}), POp("ws*"), PLit(StartsIvxlc)>>,
  <<PLit({"ch"}), PLit({"."}), POp("ws*"), POp("d+")>>,
  <<PLit({"part"}), POp("ws*"), POp("d+")>>,
  <<PLit({"interlude"})>>}

\* epub_parser.py:253-256
story_patterns == {
  <<POp("wb"), PLit({"he", "she", "they"}), POp("ws+"),
    PLit({"said", "walked", "ran", "looked", "saw"})>>,
  <<PLit({"once"}), POp("sp"), PLit({"upon"})>>,
  <<PLit({"in"}), POp("sp"), PLit({"the"})>>,
  <<PLit({"it"}), POp("sp"), PLit({"was"})>>,
  <<PLit({"there"}), POp("sp"), PLit({"was"})>>}

\* epub_parser.py:238-270: the score and the decision for the less clear cases
ScoreDecision(first_300_chars, textLen) ==
  LET extended == 2 * Cardinality({pt \in extended_patterns : Search(pt, first_300_chars)})
      story == IF \E pt \in story_patterns : Search(pt, first_300_chars) THEN 1 ELSE 0
      score == extended + story
  IN IF textLen > LongTextLen THEN score + 1 >= 2
     ELSE IF textLen < ShortTextLen THEN score >= 3
     ELSE score >= 2

\* A faulty variant of TooDense: the count alone decides.
TooDenseByCountAlone(chapter_count, words) == chapter_count > MinChapterCount

\* epub_parser.py:207-212: more than 12 mentions of "chapter", and more than
\* one per 50 words (chapter_count / words > 0.02)
TooDense(chapter_count, words) ==
  words > 0 /\ chapter_count > MinChapterCount /\ chapter_count * DensityDenominator > words

\* epub_parser.py:187-274: the analysis of the content; when the parser
\* rejects the markup the except branch decides by the size alone
AnalyseContent(content) ==
  LET text_content == Strip(GetText(content))
      lower == Lower(text_content)
      first_300_chars == Take(lower, First300)
      first_200 == Take(lower, First200)
      chapter_count == CountWord(lower, "chapter")
      words == WordCount(text_content)
  IN
  IF RawLen(content) < MinContentBytes THEN FALSE
  ELSE IF Raises(content) THEN RawLen(content) > FallbackBytes
  ELSE IF TextLen(text_content) < MinTextLen THEN FALSE
  ELSE IF TooDense(chapter_count, words) THEN FALSE
  ELSE IF HasWord(first_200, "contents") /\ HasWord(first_200, "prologue") THEN FALSE
  ELSE IF \/ HasWord(first_200, "glossary")
          \/ HasPhrase(first_200, <<"about", "the", "author">>)
          \/ HasWord(first_200, "acknowledgments") THEN FALSE
  ELSE IF \E pt \in preview_patterns : Search(pt, Take(lower, First500)) THEN FALSE
  ELSE IF /\ \/ Search(<<PLit({"chapter"}), POp("ws*"), POp("d+")>>, first_300_chars)
             \/ HasWord(first_300_chars, "prologue")
             \/ HasWord(first_300_chars, "epilogue")
          /\ TextLen(text_content) > StrongIndicatorLen THEN TRUE
  ELSE ScoreDecision(first_300_chars, TextLen(text_content))

is_chapter_content(file_name, content) ==
  IF \E pattern \in exclude_patterns : IsInfix(pattern, LowerPath(file_name)) THEN FALSE
  ELSE AnalyseContent(content)

(***************************************************************************)
(* extract_chapter_title (epub_parser.py:276-446)                           *)
(***************************************************************************)
TitleMaxLen == 200

Upper(t) == [i \in 1..Len(t) |-> IF t[i].k \in {"SP", "NL", "X", "D", "U"} THEN t[i]
                                   ELSE Run(t[i].k, 2)]

\* ' '.join(parts)
RECURSIVE JoinWithBlank(_)
JoinWithBlank(parts) ==
  IF parts = <<>> THEN <<>>
  ELSE IF Len(parts) = 1 THEN parts[1]
  ELSE parts[1] \o <<Sp(1)>> \o JoinWithBlank(Tail(parts))

\* f"Chapter {n}"
\* A faulty variant of ChapterN: the number after the chapter's own.
ChapterNOffByOne(n) == <<Run("chapter", 1), Sp(1), D(n + 1)>>

ChapterN(n) == <<Run("chapter", 1), Sp(1), D(n)>>

\* the literal words made of the letters ivxlc only
RomanLits == {"i", "ii", "iii", "iv", "v", "vi", "x", "xi", "l", "c"}
IsDigits(t) == Len(t) = 1 /\ t[1].k = "D"
IsRoman(t) == t # <<>> /\ \A i \in 1..Len(t) : t[i].k \in RomanLits

\* the index of the first run at or after i that is not whitespace
RECURSIVE SkipWs(_, _)
SkipWs(t, i) == IF i <= Len(t) /\ IsWs(t[i]) THEN SkipWs(t, i + 1) ELSE i

\* A faulty variant of NormalizeHeading: the heading's text as it stands.
HeadingUnchanged(title) == title

\* epub_parser.py:290-291: the two re.sub calls on a heading's text
NormalizeHeading(title) ==
  LET d == SkipWs(title, 2)
      sep == SkipWs(title, d + 1)
      after == SkipWs(title, sep + 1)
      startsChapterNum == /\ Len(title) >= 2 /\ title[1].k = "chapter"
                          /\ d <= Len(title) /\ title[d].k = "D"
  IN IF startsChapterNum /\ sep <= Len(title) /\ title[sep].k \in {"-", ":"}
     THEN <<Run("chapter", 1), Sp(1), title[d], Lit(":"), Sp(1)>>
          \o SubSeq(title, after, Len(title))
     ELSE IF startsChapterNum /\ sep > Len(title)
     THEN <<Run("chapter", 1), Sp(1), title[d]>>
     ELSE title

\* epub_parser.py:285-292: the first heading of a level with a usable text
HeadingTitle(soup, tags) ==
  LET Candidate(tag) ==
        LET found == FindAll(soup, {tag}) IN
        IF found = <<>> THEN <<>>
        ELSE LET title == Strip(GetText(found[1].kids)) IN
             IF TextLen(title) > 2
                /\ Lower(title) \notin {<<Lit("chapter")>>, <<Lit("the")>>, <<Lit("a")>>, <<Lit("an")>>}
             THEN <<Take(NormalizeHeading(title), TitleMaxLen)>>
             ELSE <<>>
      hits == [i \in 1..Len(tags) |-> Candidate(tags[i])]
  IN IF \E i \in 1..Len(tags) : hits[i] # <<>>
     THEN hits[CHOOSE i \in 1..Len(tags) : hits[i] # <<>> /\ \A j \in 1..(i - 1) : hits[j] = <<>>]
     ELSE <<>>

\* the stripped texts of a list of elements, the empty ones left out
RECURSIVE StrippedTexts(_)
StrippedTexts(els) ==
  IF els = <<>> THEN <<>>
  ELSE LET text == Strip(GetText(Head(els).kids)) IN
       (IF text # <<>> THEN <<text>> ELSE <<>>) \o StrippedTexts(Tail(els))

\* the least element of a non-empty set of positions
MinOf(S) == CHOOSE m \in S : \A q \in S : m <= q

\* the first element of a sequence that is not empty; <<>> when there is none
RECURSIVE FirstNonEmpty(_)
FirstNonEmpty(seq) ==
  IF seq = <<>> THEN <<>>
  ELSE IF Head(seq) # <<>> THEN Head(seq) ELSE FirstNonEmpty(Tail(seq))

\* the first of two candidates that is not empty
OrElse(a, b) == IF a # <<>> THEN a ELSE b

FirstN(seq, n) == SubSeq(seq, 1, IF Len(seq) < n THEN Len(seq) ELSE n)
Min(a, b) == IF a < b THEN a ELSE b

LeadingDigit(n) == n \div Pow10(NumDigits(n) - 1)
\* 'book 1' in text.lower() or 'book 2' in text.lower()
HasBookOneOrTwo(t) ==
  \E i \in 1..(Len(t) - 2) :
    t[i].k = "book" /\ t[i + 1] = Sp(1) /\ t[i + 2].k = "D" /\ LeadingDigit(t[i + 2].n) \in {1, 2}

\* epub_parser.py:304-317: the parts collected after a keyword paragraph
RECURSIVE CollectTitleParts(_, _, _, _)
CollectTitleParts(para_texts, j, last, title_parts) ==
  IF j > last THEN title_parts
  ELSE LET next_text == para_texts[j] IN
       IF TextLen(next_text) > 100 THEN title_parts
       ELSE IF HasPhrase(Lower(next_text), <<"wheel", "of", "time">>) \/ HasBookOneOrTwo(next_text)
       THEN CollectTitleParts(para_texts, j + 1, last, title_parts)
       ELSE IF Len(title_parts) + 1 >= 3 THEN Append(title_parts, next_text)
       ELSE CollectTitleParts(para_texts, j + 1, last, Append(title_parts, next_text))

\* epub_parser.py:296-321: the title from the first paragraphs; <<>> when none,
\* else the one-element sequence holding the title
RECURSIVE ParagraphTitleFrom(_, _)
ParagraphTitleFrom(para_texts, i) ==
  IF i > Min(5, Len(para_texts)) THEN <<>>
  ELSE LET text == para_texts[i] IN
       IF Upper(text) \in {<<Run(w, 2)>> : w \in {"chapter", "prologue", "epilogue", "part", "interlude"}}
       THEN <<Take(JoinWithBlank(CollectTitleParts(para_texts, i + 1,
                                   Min(i + 3, Len(para_texts)), <<text>>)), TitleMaxLen)>>
       ELSE IF Len(text) >= 2 /\ text[1].k \in {"chapter", "prologue", "epilogue"} /\ IsWs(text[2])
       THEN <<Take(text, TitleMaxLen)>>
       ELSE ParagraphTitleFrom(para_texts, i + 1)

ParagraphTitle(soup) ==
  ParagraphTitleFrom(StrippedTexts(FirstN(FindAll(soup, {"p"}), 10)), 1)

\* [line.strip() for line in text.split('\n') if line.strip()]
RECURSIVE SplitLines(_, _)
SplitLines(t, cur) ==
  IF t = <<>> THEN (IF Strip(cur) # <<>> THEN <<Strip(cur)>> ELSE <<>>)
  ELSE IF Head(t).k = "NL"
       THEN (IF Strip(cur) # <<>> THEN <<Strip(cur)>> ELSE <<>>) \o SplitLines(Tail(t), <<>>)
       ELSE SplitLines(Tail(t), Append(cur, Head(t)))

Lines(t) == SplitLines(t, <<>>)

\* epub_parser.py:369-388: the number and title lines after a keyword line
RECURSIVE MultilineParts(_, _, _, _)
MultilineParts(lines, j, last, title_parts) ==
  IF j > last THEN title_parts
  ELSE LET line == lines[j] IN
       IF TextLen(line) <= 2
       THEN MultilineParts(lines, j + 1, last,
              IF IsDigits(line) \/ IsRoman(Lower(line)) THEN Append(title_parts, line)
              ELSE title_parts)
       ELSE IF \/ HasPhrase(Lower(line), <<"the", "eye", "of", "the", "world">>)
               \/ HasPhrase(Lower(line), <<"wheel", "of", "time">>)
       THEN MultilineParts(lines, j + 1, last, title_parts)
       ELSE Append(title_parts, line)

\* epub_parser.py:348-392
extract_multiline_chapter_title(lines) ==
  LET first15 == FirstN(lines, 15)
      IsKeyword(line) ==
        Upper(line) \in {<<Run(w, 2)>> :
                          w \in {"chapter", "prologue", "epilogue", "interlude", "part", "book"}}
  IN IF \E i \in 1..Len(first15) : IsKeyword(first15[i])
     THEN LET idx == CHOOSE i \in 1..Len(first15) :
                       IsKeyword(first15[i]) /\ \A m \in 1..(i - 1) : ~IsKeyword(first15[m])
          IN JoinWithBlank(MultilineParts(lines, idx + 1, Min(idx + 5, Len(lines)),
                                          <<Upper(lines[idx])>>))
     ELSE <<>>

\* epub_parser.py:398-407: the single-line header patterns, anchored at the
\* start of the line
SingleLineMatches(line) ==
  LET l == Lower(line) IN
  \/ Match(<<PLit({"chapter"}), POp("ws+"), POp("d+")>>, l, 1, 0)
  \/ Match(<<PLit({"chapter"}), POp("ws+"), PLit(StartsIvxlc)>>, l, 1, 0)
  \/ Match(<<PLit({"ch"}), PLit({"."}), POp("ws*"), POp("d+")>>, l, 1, 0)
  \/ Match(<<PLit({"prologue", "epilogue", "interlude"})>>, l, 1, 0)
  \/ Match(<<PLit({"part"}), POp("ws+"), POp("d+")>>, l, 1, 0)
  \/ Match(<<PLit({"part"}), POp("ws+"), PLit(StartsIvxlc)>>, l, 1, 0)

\* epub_parser.py:394-414
extract_single_line_chapter_title(lines) ==
  FirstNonEmpty(SelectSeq(FirstN(lines, 10), SingleLineMatches))

\* a run that holds a letter a-z once lower-cased
IsLetterRun(r) == r.k = "X" \/ (IsWordRun(r) /\ r.k \notin {"D", "U"})

\* epub_parser.py:421-424 on one line: the span  keyword [\s+ \d+] [^a-z]* [a-z] [^.]*
\* of the leftmost match of one pattern.  AfterKeyword is where [^a-z]* starts.
AfterKeyword(line, i, needsNumber) == IF needsNumber THEN SkipWs(line, i + 1) + 1 ELSE i + 1

PatternStarts(line, keyword, needsNumber, i) ==
  /\ line[i].k = keyword
  /\ needsNumber => /\ i + 1 <= Len(line) /\ IsWs(line[i + 1])
                    /\ SkipWs(line, i + 1) <= Len(line)
                    /\ line[SkipWs(line, i + 1)].k = "D"
  /\ \E m \in AfterKeyword(line, i, needsNumber)..Len(line) : IsLetterRun(line[m])

\* [^.]* : the match runs to the run before the first full stop after the letter
SpanEnd(line, letter) ==
  LET dots == {m \in (letter + 1)..Len(line) : line[m].k = "."} IN
  IF dots = {} THEN Len(line) ELSE MinOf(dots) - 1

\* match.group(0).strip() of the match that starts at run start
SpanText(line, start, from) ==
  Strip(SubSeq(line, start, SpanEnd(line, MinOf({m \in from..Len(line) : IsLetterRun(line[m])}))))

PatternSpan(line, keyword, needsNumber) ==
  LET cands == {i \in 1..Len(line) : PatternStarts(line, keyword, needsNumber, i)} IN
  IF cands = {} THEN <<>>
  ELSE SpanText(line, MinOf(cands), AfterKeyword(line, MinOf(cands), needsNumber))

\* epub_parser.py:420-432: the patterns in order, on one line
PatternTitleOfLine(line) ==
  FirstNonEmpty(<<PatternSpan(line, "chapter", TRUE), PatternSpan(line, "prologue", FALSE),
                  PatternSpan(line, "epilogue", FALSE), PatternSpan(line, "part", TRUE)>>)

RECURSIVE PatternTitles(_)
PatternTitles(lines) ==
  IF lines = <<>> THEN <<>> ELSE <<PatternTitleOfLine(Head(lines))>> \o PatternTitles(Tail(lines))

\* epub_parser.py:416-434
extract_pattern_based_title(lines) == FirstNonEmpty(PatternTitles(FirstN(lines, 20)))

\* epub_parser.py:436-446
NumericLine(line) == IsDigits(line) \/ IsRoman(Lower(line))

NumericTitle(line) == <<Run("chapter", 1), Sp(1)>> \o (IF IsDigits(line) THEN line ELSE Upper(line))

extract_numeric_title(lines) ==
  LET hits == SelectSeq(FirstN(lines, 10), NumericLine) IN
  IF hits = <<>> THEN <<>> ELSE NumericTitle(Head(hits))

\* epub_parser.py:340-343: the first <p> that starts with a keyword and whitespace
RECURSIVE FinalFallbackTitle(_)
FinalFallbackTitle(ps) ==
  IF ps = <<>> THEN <<>>
  ELSE LET text == Strip(GetText(Head(ps).kids)) IN
       IF Len(text) >= 2 /\ IsWs(text[2])
          /\ text[1].k \in {"chapter", "prologue", "epilogue", "part", "interlude"}
       THEN Take(text, TitleMaxLen)
       ELSE FinalFallbackTitle(Tail(ps))

\* epub_parser.py:323-338: the line strategies in order; the first result that
\* is not empty, cut to the title length
LineStrategies(lines) ==
  Take(FirstNonEmpty(<<extract_multiline_chapter_title(lines),
                       extract_single_line_chapter_title(lines),
                       extract_pattern_based_title(lines),
                       extract_numeric_title(lines)>>), TitleMaxLen)

\* epub_parser.py:323-345: the line strategies, then the final fallback
LineTitle(soup) ==
  OrElse(LineStrategies(Lines(Strip(GetText(soup)))), FinalFallbackTitle(FindAll(soup, {"p"})))

\* epub_parser.py:276-345: "" is <<>>
extract_chapter_title(soup) ==
  OrElse(FirstNonEmpty(HeadingTitle(soup, <<"h1", "h2", "h3", "h4">>)),
         OrElse(FirstNonEmpty(ParagraphTitle(soup)), LineTitle(soup)))

(***************************************************************************)
(* parse_epub_content, the h2 path (epub_parser.py:54-105)                  *)
(***************************************************************************)
MinParagraphLen == 10

\* epub_parser.py:72-75 and 79-82: the paragraphs a <p> contributes
H2ParaText(p) ==
  LET text == Strip(GetText(p.kids)) IN
  IF text # <<>> /\ TextLen(text) > MinParagraphLen THEN <<CollapseWs(text)>> ELSE <<>>

RECURSIVE H2ParaTexts(_)
H2ParaTexts(ps) == IF ps = <<>> THEN <<>> ELSE H2ParaText(Head(ps)) \o H2ParaTexts(Tail(ps))

\* epub_parser.py:64-84: the walk over the siblings that follow an h2
RECURSIVE SiblingContent(_)
SiblingContent(sibs) ==
  IF sibs = <<>> THEN <<>>
  ELSE LET current == Head(sibs) IN
       IF ~IsTag(current) THEN SiblingContent(Tail(sibs))
       ELSE IF current.tag = "h2" THEN <<>>
       ELSE (IF current.tag = "p" THEN H2ParaText(current)
             ELSE IF current.tag \in {"div", "blockquote", "section"}
                  THEN H2ParaTexts(FindAll(current.kids, {"p"}))
             ELSE <<>>)
            \o SiblingContent(Tail(sibs))

\* epub_parser.py:52-64: every h2 of the document, in document order, with its
\* title and the content of the siblings after it
RECURSIVE H2Sections(_)
H2Sections(kids) ==
  IF kids = <<>> THEN <<>>
  ELSE LET h == Head(kids) IN
       (IF h.tag = "h2"
        THEN <<[title |-> Strip(GetText(h.kids)), content |-> SiblingContent(Tail(kids))]>>
        ELSE <<>>)
       \o H2Sections(h.kids)
       \o H2Sections(Tail(kids))

\* The state of a parsing loop: the chapters appended so far and the counter.
LoopStart == [chapters |-> <<>>, chapter_number |-> 1]

\* epub_parser.py:88-105 and 114-129, epub_parser_spine.py:97-104:
\* chapters.append(...) followed by chapter_number += 1
AppendChapter(st, chapter_title, content, images) ==
  [chapters |-> Append(st.chapters,
                       [chapterNumber |-> st.chapter_number, chapterTitle |-> chapter_title,
                        content |-> content, images |-> images]),
   chapter_number |-> st.chapter_number + 1]

\* A faulty variant of H2Chapter: the counter advances for a skipped section too.
H2ChapterCountingSkips(sec, st) ==
  IF sec.title = <<>> \/ sec.content = <<>>
  THEN [chapters |-> st.chapters, chapter_number |-> st.chapter_number + 1]
  ELSE AppendChapter(st, sec.title, sec.content, <<>>)

\* epub_parser.py:56-105: one h2 section; `continue` without a title or content
H2Chapter(sec, st) ==
  IF sec.title = <<>> \/ sec.content = <<>> THEN st
  ELSE AppendChapter(st, sec.title, sec.content, <<>>)

\* epub_parser.py:55: for h2 in h2_tags
RECURSIVE H2Chapters(_, _)
H2Chapters(sections, st) ==
  IF sections = <<>> THEN st ELSE H2Chapters(Tail(sections), H2Chapter(Head(sections), st))

(***************************************************************************)
(* extract_chapter_content_with_images (epub_parser.py:448-491)             *)
(***************************************************************************)
\* epub_parser.py:466-471: the paragraphs a <p> contributes
ParaText(p) ==
  LET text == Strip(GetText(p.kids)) IN
  IF text # <<>> /\ TextLen(text) > MinParagraphLen
  THEN <<Strip(ReplaceNl(CollapseWs(text)))>> ELSE <<>>

\* epub_parser.py:479-483: the first image whose path the src is part of or ends
\* with; 0 when none.  epub_images is a sequence of [id, originalPath].
MatchingImage(src, epub_images) ==
  LET hits == {i \in 1..Len(epub_images) :
                 IsInfix(src, epub_images[i].originalPath)
                 \/ IsSuffix(src, epub_images[i].originalPath)}
  IN IF hits = {} THEN 0
     ELSE epub_images[CHOOSE i \in hits : \A j \in hits : i <= j].id

\* epub_parser.py:487: f"[IMAGE: {alt or 'Image'} - ID: {matching_image_id}]"
ImagePlaceholder(alt, image_id) ==
  <<Lit("["), Run("image", 2), Lit(":"), Sp(1)>>
  \o (IF alt = <<>> THEN <<Run("image", 1)>> ELSE alt)
  \o <<Sp(1), Lit("-"), Sp(1), Run("id", 2), Lit(":"), Sp(1), Run("U", image_id), Lit("]")>>

\* epub_parser.py:464-489 over the <p> and <img> elements in document order
RECURSIVE ContentOfElements(_, _)
ContentOfElements(els, epub_images) ==
  IF els = <<>> THEN [content |-> <<>>, images |-> <<>>]
  ELSE LET element == Head(els)
           rest == ContentOfElements(Tail(els), epub_images)
           id == MatchingImage(element.src, epub_images)
       IN IF element.tag = "p"
          THEN [content |-> ParaText(element) \o rest.content, images |-> rest.images]
          ELSE IF id # 0
          THEN [content |-> <<ImagePlaceholder(element.alt, id)>> \o rest.content,
                images |-> <<id>> \o rest.images]
          ELSE rest

extract_chapter_content_with_images(soup, epub_images) ==
  ContentOfElements(FindAll(Decompose(soup, {"nav", "header", "footer"}), {"p", "img"}),
                    epub_images)

(***************************************************************************)
(* parse_epub_content (epub_parser.py:11-137)                               *)
(***************************************************************************)
\* the order of Python's string comparison on the characters of paths
AsciiOrder == <<".", "/", "0", "1", "2", "3", "4", "5", "6", "7", "8", "9", "A", "B", "C", "D", "E", "F", "G", "H", "I", "J", "K", "L", "M", "N", "O", "P", "Q", "R", "S", "T", "U", "V", "W", "X", "Y", "Z", "_", "a", "b", "c", "d", "e", "f", "g", "h", "i", "j", "k", "l", "m", "n", "o", "p", "q", "r", "s", "t", "u", "v", "w", "x", "y", "z">>
Code(c) == CHOOSE i \in 1..Len(AsciiOrder) : AsciiOrder[i] = c

RECURSIVE PathLess(_, _)
PathLess(a, b) ==
  IF b = <<>> THEN FALSE
  ELSE IF a = <<>> THEN TRUE
  ELSE IF Head(a) # Head(b) THEN Code(Head(a)) < Code(Head(b))
  ELSE PathLess(Tail(a), Tail(b))

\* sorted(items, key=lambda x: x.file_name): a stable insertion sort
RECURSIVE InsertByName(_, _)
InsertByName(item, sorted) ==
  IF sorted = <<>> THEN <<item>>
  ELSE IF PathLess(item.file_name, Head(sorted).file_name) THEN <<item>> \o sorted
  ELSE <<Head(sorted)>> \o InsertByName(item, Tail(sorted))

RECURSIVE SortByName(_)
SortByName(items) ==
  IF items = <<>> THEN <<>>
  ELSE InsertByName(items[Len(items)], SortByName(SubSeq(items, 1, Len(items) - 1)))

\* A faulty variant of WholeFileChapter: the chapter is appended whatever its
\* content.
WholeFileChapterUnchecked(extracted, got, st) ==
  AppendChapter(st, OrElse(extracted, ChapterN(st.chapter_number)), got.content, got.images)

\* epub_parser.py:106-129: a document without h2 is one chapter, unless it has
\* no content
WholeFileChapter(extracted, got, st) ==
  IF got.content = <<>> THEN st
  ELSE AppendChapter(st, OrElse(extracted, ChapterN(st.chapter_number)), got.content, got.images)

\* epub_parser.py:46-129: the body of the loop after the classifier
SoupChapters(soup, images, st) ==
  IF FindAll(soup, {"h2"}) # <<>> THEN H2Chapters(H2Sections(soup), st)
  ELSE WholeFileChapter(extract_chapter_title(soup),
                        extract_chapter_content_with_images(soup, images), st)

\* epub_parser.py:35-129: one iteration of the loop
ItemChapters(item, images, st) ==
  IF ~is_chapter_content(item.file_name, item.content) THEN st
  ELSE SoupChapters(Decompose(item.content, {"script", "style", "nav", "header", "footer"}),
                    images, st)

\* epub_parser.py:34-35: the loop over the sorted items
RECURSIVE ParseItems(_, _, _)
ParseItems(items, images, st) ==
  IF items = <<>> THEN st
  ELSE ParseItems(Tail(items), images, ItemChapters(Head(items), images, st))

(***************************************************************************)
(* epub_parser_spine.py                                                     *)
(***************************************************************************)
\* epub_parser_spine.py:153
BLOCK_TAGS == {"p", "div", "section", "article", "aside", "blockquote",
               "h1", "h2", "h3", "h4", "h5", "h6", "li"}

\* epub_parser_spine.py:159-164: flush_buffer, as the paragraphs the buffer adds
FlushBuffer(current_buffer) ==
  LET text == Strip(JoinTexts(current_buffer)) IN
  IF current_buffer # <<>> /\ text # <<>> THEN <<CollapseWs(text)>> ELSE <<>>

\* epub_parser_spine.py:155-186: process_element, as a walk over the children
\* with the buffer carried along
RECURSIVE ProcessChildren(_, _)
ProcessChildren(children, current_buffer) ==
  IF children = <<>> THEN FlushBuffer(current_buffer)
  ELSE LET child == Head(children)
           rest == Tail(children)
       IN CASE child.tag = "#comment" -> ProcessChildren(rest, current_buffer)
            [] child.tag = "#text" ->
                 LET text == StripNl(child.text) IN
                 ProcessChildren(rest, IF text # <<>> THEN Append(current_buffer, text)
                                       ELSE current_buffer)
            [] child.tag = "br" ->
                 FlushBuffer(current_buffer) \o ProcessChildren(rest, <<>>)
            [] child.tag \in BLOCK_TAGS ->
                 FlushBuffer(current_buffer) \o ProcessChildren(child.kids, <<>>)
                 \o ProcessChildren(rest, <<>>)
            [] OTHER ->
                 ProcessChildren(rest, Append(current_buffer, GetText(child.kids)))

process_element(element) == ProcessChildren(element.kids, <<>>)

\* epub_parser_spine.py:148-196
RECURSIVE extract_content_from_elements(_)
extract_content_from_elements(elements) ==
  IF elements = <<>> THEN <<>>
  ELSE LET element == Head(elements) IN
       (IF IsTag(element) THEN process_element(element)
        ELSE LET text == Strip(element.text) IN
             IF text # <<>> THEN <<CollapseWs(text)>> ELSE <<>>)
       \o extract_content_from_elements(Tail(elements))

\* epub_parser_spine.py:138-146
extract_content_from_soup(soup) ==
  LET bodies == FindAll(soup, {"body"})
      container == IF bodies # <<>> THEN bodies[1].kids ELSE soup
      children == SelectSeq(container, LAMBDA c : ~(~IsTag(c) /\ Strip(c.text) = <<>>))
  IN extract_content_from_elements(children)

\* epub_parser_spine.py:130-134: the first of the first five <p> that starts with
\* a keyword followed by whitespace or a colon
RECURSIVE SpineParagraphTitle(_)
SpineParagraphTitle(ps) ==
  IF ps = <<>> THEN <<>>
  ELSE LET text == Strip(GetText(Head(ps).kids)) IN
       IF /\ Len(text) >= 2
          /\ text[1].k \in {"chapter", "prologue", "epilogue", "part", "interlude",
                            "section", "prelude"}
          /\ (IsWs(text[2]) \/ text[2].k = ":")
       THEN Take(text, TitleMaxLen)
       ELSE SpineParagraphTitle(Tail(ps))

\* epub_parser_spine.py:112-136
extract_chapter_title_from_content(soup) ==
  LET tags == <<"h1", "h2", "h3", "h4", "title">>
      Candidate(tag) ==
        LET found == FindAll(soup, {tag}) IN
        IF found = <<>> THEN <<>> ELSE Strip(GetText(found[1].kids))
  IN IF \E i \in 1..Len(tags) : Candidate(tags[i]) # <<>>
     THEN Take(Candidate(tags[CHOOSE i \in 1..Len(tags) :
                                 Candidate(tags[i]) # <<>>
                                 /\ \A j \in 1..(i - 1) : Candidate(tags[j]) = <<>>]),
               TitleMaxLen)
     ELSE SpineParagraphTitle(FirstN(FindAll(soup, {"p"}), 5))

\* A faulty variant of MinSpineContentLen: the threshold of a single paragraph.
MinSpineContentLenAsParagraph == MinParagraphLen

MinSpineContentLen == 50

\* epub_parser_spine.py:88-104: the chapter of one document, unless its content
\* is empty or not longer than 50 characters
SpineChapter(extracted, content, st) ==
  IF content # <<>> /\ TextLen(Strip(JoinTexts(content))) > MinSpineContentLen
  THEN AppendChapter(st, OrElse(extracted, ChapterN(st.chapter_number)), content, <<>>)
  ELSE st

\* epub_parser_spine.py:81-94
SpineSoupChapters(soup, st) ==
  SpineChapter(extract_chapter_title_from_content(soup), extract_content_from_soup(soup), st)

\* epub_parser_spine.py:69-108: one spine entry.  The book's items are its
\* documents; any other id names no document.  An exception raised for the
\* entry is caught and the loop continues with the next entry.
SpineItemChapters(book, item_id, st) ==
  LET found == {i \in 1..Len(book.docs) : book.docs[i].id = item_id} IN
  IF found = {} THEN st
  ELSE IF Raises(book.docs[MinOf(found)].content) THEN st
  ELSE SpineSoupChapters(Decompose(book.docs[MinOf(found)].content,
                                   {"script", "style", "nav", "header", "footer"}), st)

\* A faulty variant of SpineChapters: the spine is walked from its end.
RECURSIVE SpineChaptersBackwards(_, _, _)
SpineChaptersBackwards(book, spine, st) ==
  IF spine = <<>> THEN st
  ELSE SpineItemChapters(book, Head(spine), SpineChaptersBackwards(book, Tail(spine), st))

\* epub_parser_spine.py:69: for item_id, _ in spine
RECURSIVE SpineChapters(_, _, _)
SpineChapters(book, spine, st) ==
  IF spine = <<>> THEN st
  ELSE SpineChapters(book, Tail(spine), SpineItemChapters(book, Head(spine), st))

\* epub_parser_spine.py:57-110
extract_chapters_from_spine(book) == SpineChapters(book, book.spine, LoopStart).chapters

(***************************************************************************)
(* BOOKS.  What epub.read_epub returns for the uploaded bytes: the document *)
(* items in manifest order, the image items, the spine and the navigation   *)
(* tree.  The bytes of an upload are identified with the book they encode.  *)
(***************************************************************************)
Html(kids) == <<El("html", <<El("body", kids)>>)>>
P(t) == El("p", <<Txt(t)>>)
Words(n) == <<X(4), Sp(1), X(n - 5)>>
ChapterHead(n) == <<Run("chapter", 1), Sp(1), D(n)>>

\* <h1>Chapter 7 - The zzzzz</h1><p>...</p><p>"Go!"</p>
DocPlain ==
  Html(<<El("h1", <<Txt(<<Run("chapter", 1), Sp(1), D(7), Sp(1), Lit("-"), Sp(1),
                          Run("the", 1), Sp(1), X(5)>>)>>),
         P(Words(600)),
         P(<<Lit("\""), Run("go", 1), Lit("!"), Lit("\"")>>)>>)

\* two h2 sections, the second with its paragraph inside a div
DocTwoH2 ==
  Html(<<El("h2", <<Txt(ChapterHead(1))>>), P(Words(300)),
         El("h2", <<Txt(ChapterHead(2))>>), El("div", <<P(Words(300))>>)>>)

\* an h2 without a title, an h2 without content, and an h2 with both
DocH2Skips ==
  Html(<<El("h2", <<Txt(<<Sp(2)>>)>>), P(Words(250)),
         El("h2", <<Txt(ChapterHead(3))>>), P(<<X(10)>>),
         El("h2", <<Txt(<<Run("epilogue", 1)>>)>>),
         P(<<Nl(1), Sp(4), X(200), Sp(2), Nl(1), Sp(4), X(200), Nl(1)>>)>>)

\* a heading and text that sits in a div, not in any <p>
DocLoose ==
  Html(<<El("h1", <<Txt(<<Run("prologue", 1)>>)>>),
         El("div", <<Txt(<<Nl(1), Sp(2)>> \o Words(600) \o <<Nl(1)>>)>>)>>)

\* a paragraph and an image whose alt text holds two blanks in a row
SrcA == <<"a", ".", "p", "n", "g">>
ImagePathA == <<"i", "m", "a", "g", "e", "s", "/", "a", ".", "p", "n", "g">>
DocImage ==
  Html(<<P(ChapterHead(2) \o <<Nl(1)>> \o Words(600)),
         Img(SrcA, <<X(3), Sp(2), X(3)>>)>>)

\* too short for the classifier, long enough for the spine parser
DocShort == Html(<<P(Words(60))>>)

\* narrative text without any heading or chapter marker
DocStory ==
  Html(<<P(<<Run("he", 1), Sp(1), Lit("said"), Sp(1)>> \o Words(1600))>>)

\* inline markup and untidy whitespace inside the paragraphs
DocMessy ==
  Html(<<El("h3", <<Txt(<<Run("interlude", 1)>>)>>),
         El("p", <<Txt(<<Nl(1), Sp(2), X(300), Sp(1)>>),
                   El("em", <<Txt(<<X(4)>>)>>),
                   Txt(<<Sp(3), X(300), Nl(2)>>)>>),
         El("p", <<Txt(<<Sp(1), Nl(1)>>)>>)>>)

\* text, inline elements, a comment and a line break directly under the body
DocTopLevel ==
  Html(<<Txt(<<Nl(1)>> \o ChapterHead(4) \o <<Sp(1)>> \o Words(300)),
         El("em", <<Txt(<<X(2)>>)>>),
         Cmt(<<X(7)>>),
         El("div", <<Txt(Words(200)), El("br", <<>>), Txt(<<Sp(1)>> \o Words(200))>>)>>)

DocLib == {DocPlain, DocTwoH2, DocH2Skips, DocLoose, DocImage, DocShort, DocStory,
           DocMessy, DocTopLevel}

\* file names, each list in manifest order
NameOrders == {
  <<<<"c", "h", "1", ".", "x", "h", "t", "m", "l">>, <<"c", "h", "2", ".", "x", "h", "t", "m", "l">>, <<"c", "h", "3", ".", "x", "h", "t", "m", "l">>, <<"c", "h", "4", ".", "x", "h", "t", "m", "l">>, <<"c", "h", "5", ".", "x", "h", "t", "m", "l">>>>,
  <<<<"c", "h", "2", ".", "x", "h", "t", "m", "l">>, <<"c", "h", "1", "0", ".", "x", "h", "t", "m", "l">>, <<"c", "h", "1", ".", "x", "h", "t", "m", "l">>, <<"c", "h", "3", ".", "x", "h", "t", "m", "l">>, <<"c", "h", "0", ".", "x", "h", "t", "m", "l">>>>,
  <<<<"T", "e", "x", "t", "/", "C", "o", "v", "e", "r", ".", "x", "h", "t", "m", "l">>, <<"T", "e", "x", "t", "/", "p", "a", "r", "t", "1", ".", "x", "h", "t", "m", "l">>, <<"T", "e", "x", "t", "/", "t", "o", "c", ".", "x", "h", "t", "m", "l">>, <<"T", "e", "x", "t", "/", "p", "a", "r", "t", "2", ".", "x", "h", "t", "m", "l">>, <<"T", "e", "x", "t", "/", "p", "a", "r", "t", "3", ".", "x", "h", "t", "m", "l">>>>}

MaxDocs == 2

\* one navigation entry per document, in manifest order, titled "Nav <k>"
NavTitle(k) == <<Run("nav", 1), Sp(1), D(k)>>
CompleteNav(n) == [k \in 1..n |-> [title |-> NavTitle(k), href |-> k]]

MakeBook(names, contents, images, spine, toc) ==
  [docs |-> [i \in 1..Len(contents) |->
               [id |-> i, file_name |-> names[i], content |-> contents[i]]],
   images |-> images, spine |-> spine, toc |-> toc]

Identity(n) == [i \in 1..n |-> i]
\* the documents in reverse order, after an id that names no document
ReversedSpine(n) == <<0>> \o [i \in 1..n |-> n + 1 - i]

BooksOf(names, contents) ==
  {MakeBook(names, contents, images, spine, <<>>) :
     images \in {<<>>, <<ImagePathA>>},
     spine \in {Identity(Len(contents)), ReversedSpine(Len(contents))}}

GeneralBooks ==
  UNION {BooksOf(names, contents) :
           names \in NameOrders,
           contents \in UNION {[1..n -> DocLib] : n \in 1..MaxDocs}}

\* three documents and a complete navigation tree of three leaf entries
NavBooks ==
  {MakeBook(<<<<"n", "1", ".", "x", "h", "t", "m", "l">>, <<"n", "2", ".", "x", "h", "t", "m", "l">>, <<"n", "3", ".", "x", "h", "t", "m", "l">>>>, contents, <<>>, Identity(3), CompleteNav(3)) :
     contents \in [1..3 -> {DocPlain, DocStory, DocShort}]}

\* five documents that all pass the classifier, a five-entry spine, no navigation
FiveDocBooks ==
  {MakeBook(<<<<"s", "1", ".", "x", "h", "t", "m", "l">>, <<"s", "2", ".", "x", "h", "t", "m", "l">>, <<"s", "3", ".", "x", "h", "t", "m", "l">>, <<"s", "4", ".", "x", "h", "t", "m", "l">>, <<"s", "5", ".", "x", "h", "t", "m", "l">>>>, contents, <<>>, Identity(5), <<>>) :
     contents \in [1..5 -> {DocPlain, DocTwoH2, DocLoose}]}

Books == GeneralBooks \cup NavBooks \cup FiveDocBooks

(***************************************************************************)
(* THE CALLS.  Each call of parse_epub_content ("toc") or                   *)
(* parse_epub_content_spine ("spine") writes its bytes to a file, reads the *)
(* book back from that file, and extracts the chapters.                     *)
(***************************************************************************)
Calls == {"A", "B"}
MaxUuid == 2
Uuids == 1..MaxUuid
NoBook == [docs |-> <<>>, images |-> <<>>, spine |-> <<>>, toc |-> <<>>]
NoResult == [chapters |-> <<>>, images |-> <<>>]
NoVerdict == [is_valid |-> FALSE, score |-> -1]
NotReturned == <<"none">>

VARIABLES
  kind,        \* per call: "toc", "spine", or "none" for a call that is not made
  input,       \* per call: epub_content, the uploaded bytes
  pc,          \* per call: "write", "read", "parse", then "done" or "raised"
  debug_file,  \* the content of /tmp/debug_epub.epub
  temp_files,  \* the files /tmp/<uuid>.epub, as a function from the uuids in use
  temp_path,   \* per call: the uuid of its temp_path, 0 before it is chosen
  book,        \* per call: what epub.read_epub returned
  result,      \* per call: the firestore chapters and the images returned
  used_uuids,  \* the values uuid.uuid4() has returned
  validation,  \* per call of validate_parsed_content: (is_valid, score), or NoVerdict
  returned,    \* per call of a single function on one document: the value returned
  progress_store,    \* download.py:17: per progress id its entry, or NoProgress
  progress_id,       \* per request of download_chapter: its progress_id, or None
  request,           \* per request of download_chapter: where the handler stands
  total_paragraphs,  \* per request: len(paragraphs), 0 before the chapter is fetched
  members,           \* per request: the names of the ZIP members yielded so far
  polled             \* per progress id: what poll_progress saw last, "stopped" at its end

\* the state of the EPUB parser calls and the state of the download requests
epubvars == <<kind, input, pc, debug_file, temp_files, temp_path, book, result, used_uuids,
              validation, returned>>
dlvars == <<progress_store, progress_id, request, total_paragraphs, members, polled>>
vars == <<epubvars, dlvars>>

\* the requests of download_chapter and the progress ids they may carry
Requests == {"R1", "R2"}
ProgressIds == {"p1", "p2"}
None == "None"
NoProgress == [status |-> "absent"]

\* no request of download_chapter is made
NoDownloads ==
  /\ progress_store = [id \in ProgressIds |-> NoProgress]
  /\ progress_id = [r \in Requests |-> None]
  /\ request = [r \in Requests |-> "none"]
  /\ total_paragraphs = [r \in Requests |-> 0]
  /\ members = [r \in Requests |-> <<>>]
  /\ polled = [id \in ProgressIds |-> "stopped"]

\* uuid.uuid4(): any value not returned before
FreshUuids == Uuids \ used_uuids

InitCommon ==
  /\ debug_file = NoBook
  /\ temp_files = <<>>
  /\ temp_path = [c \in Calls |-> 0]
  /\ book = [c \in Calls |-> NoBook]
  /\ result = [c \in Calls |-> NoResult]
  /\ used_uuids = {}
  /\ validation = [c \in Calls |-> NoVerdict]
  /\ returned = [c \in Calls |-> NotReturned]
  /\ NoDownloads

\* one call, on any book
Init ==
  /\ InitCommon
  /\ \E k \in {"toc", "spine"}, b \in Books :
       /\ kind = [c \in Calls |-> IF c = "A" THEN k ELSE "none"]
       /\ input = [c \in Calls |-> IF c = "A" THEN b ELSE NoBook]
  /\ pc = [c \in Calls |-> IF c = "A" THEN "write" ELSE "done"]

\* epub_parser.py:20-21
WriteDebugFile(c) ==
  /\ kind[c] = "toc" /\ pc[c] = "write"
  /\ debug_file' = input[c]
  /\ pc' = [pc EXCEPT ![c] = "read"]
  /\ UNCHANGED <<kind, input, temp_files, temp_path, book, result, used_uuids, validation, returned, dlvars>>

\* epub_parser.py:25
ReadDebugFile(c) ==
  /\ kind[c] = "toc" /\ pc[c] = "read"
  /\ book' = [book EXCEPT ![c] = debug_file]
  /\ pc' = [pc EXCEPT ![c] = "parse"]
  /\ UNCHANGED <<kind, input, debug_file, temp_files, temp_path, result, used_uuids, validation, returned, dlvars>>

\* epub_parser.py:140-173: one image dictionary per image item, each with a
\* new uuid4 as its id
extract_images_from_epub(bk, ids) ==
  [i \in 1..Len(bk.images) |-> [id |-> ids[i], originalPath |-> bk.images[i]]]

\* epub_parser.py:41-45: nothing catches what BeautifulSoup(item.content)
\* raises for a document that is_chapter_content let through
ParseRaisesForAnyRejected(items) ==
  \E i \in 1..Len(items) : Raises(items[i].content)

ParseRaises(items) ==
  \E i \in 1..Len(items) :
    Raises(items[i].content) /\ is_chapter_content(items[i].file_name, items[i].content)

\* epub_parser.py:32-137: the call returns its result, or ends with the
\* exception ("raised") and returns nothing
Parse(c) ==
  /\ kind[c] = "toc" /\ pc[c] = "parse"
  /\ \E ids \in [1..Len(book[c].images) -> FreshUuids] :
       /\ \A i, j \in 1..Len(book[c].images) : i # j => ids[i] # ids[j]
       /\ LET images == extract_images_from_epub(book[c], ids) IN
          result' = [result EXCEPT ![c] =
                       IF ParseRaises(book[c].docs) THEN NoResult
                       ELSE [chapters |-> ParseItems(SortByName(book[c].docs), images,
                                                     LoopStart).chapters,
                             images |-> images]]
       /\ used_uuids' = used_uuids \cup {ids[i] : i \in 1..Len(book[c].images)}
  /\ pc' = [pc EXCEPT ![c] = IF ParseRaises(book[c].docs) THEN "raised" ELSE "done"]
  /\ UNCHANGED <<kind, input, debug_file, temp_files, temp_path, book, validation, returned, dlvars>>

\* epub_parser_spine.py:26-28
WriteTempFile(c) ==
  /\ kind[c] = "spine" /\ pc[c] = "write"
  /\ \E u \in FreshUuids :
       /\ temp_path' = [temp_path EXCEPT ![c] = u]
       /\ temp_files' = [p \in DOMAIN temp_files \cup {u} |->
                           IF p = u THEN input[c] ELSE temp_files[p]]
       /\ used_uuids' = used_uuids \cup {u}
  /\ pc' = [pc EXCEPT ![c] = "read"]
  /\ UNCHANGED <<kind, input, debug_file, book, result, validation, returned, dlvars>>

\* epub_parser_spine.py:30-34: read the book, then remove the file
ReadTempFile(c) ==
  /\ kind[c] = "spine" /\ pc[c] = "read"
  /\ book' = [book EXCEPT ![c] = temp_files[temp_path[c]]]
  /\ temp_files' = [p \in DOMAIN temp_files \ {temp_path[c]} |-> temp_files[p]]
  /\ pc' = [pc EXCEPT ![c] = "parse"]
  /\ UNCHANGED <<kind, input, debug_file, temp_path, result, used_uuids, validation, returned, dlvars>>

\* epub_parser_spine.py:36-55
ParseSpine(c) ==
  /\ kind[c] = "spine" /\ pc[c] = "parse"
  /\ result' = [result EXCEPT ![c] =
                  [chapters |-> extract_chapters_from_spine(book[c]), images |-> <<>>]]
  /\ pc' = [pc EXCEPT ![c] = "done"]
  /\ UNCHANGED <<kind, input, debug_file, temp_files, temp_path, book, used_uuids, validation, returned, dlvars>>

Next ==
  \E c \in Calls :
    \/ WriteDebugFile(c)
    \/ ReadDebugFile(c)
    \/ Parse(c)
    \/ WriteTempFile(c)
    \/ ReadTempFile(c)
    \/ ParseSpine(c)

Spec == Init /\ [][Next]_vars

(***************************************************************************)
(* PROPERTIES of one call                                                   *)
(***************************************************************************)
Done(c) == kind[c] \in {"toc", "spine"} /\ pc[c] = "done"

\* the documents of a book that hold the given markup
HasDoc(bk, content) == \E i \in 1..Len(bk.docs) : bk.docs[i].content = content

\* C1: the k-th chapter a call returns carries the number k, so the numbers are
\* exactly 1..N without gap or duplicate, whatever was skipped on the way.
DenseNumbering ==
  \A c \in Calls :
    Done(c) => \A k \in 1..Len(result[c].chapters) : result[c].chapters[k].chapterNumber = k

\* C1, its case: a call of parse_epub_content that skipped h2 sections without
\* title or content (DocH2Skips) and returned two chapters or more.
DenseNumberingReached ==
  \E c \in Calls :
    /\ kind[c] = "toc" /\ pc[c] = "done"
    /\ HasDoc(input[c], DocH2Skips)
    /\ Len(result[c].chapters) >= 2

\* C9: no returned chapter has an empty content list.
ChaptersHaveContent ==
  \A c \in Calls :
    Done(c) => \A k \in 1..Len(result[c].chapters) : result[c].chapters[k].content # <<>>

\* C9, its case: a call of parse_epub_content met a document that passes the
\* classifier and has no paragraph (DocLoose), and returned chapters of the
\* other documents.
ChaptersHaveContentReached ==
  \E c \in Calls :
    /\ kind[c] = "toc" /\ pc[c] = "done"
    /\ HasDoc(input[c], DocLoose)
    /\ result[c].chapters # <<>>

\* a paragraph is whitespace-normalized: not empty, no whitespace at either end,
\* no newline, and never two whitespace characters in a row
IsNormalized(t) ==
  /\ t # <<>>
  /\ \A i \in 1..Len(t) : RunLen(t[i]) > 0
  /\ ~IsWs(t[1]) /\ ~IsWs(t[Len(t)])
  /\ \A i \in 1..Len(t) : t[i].k # "NL" /\ (t[i].k = "SP" => t[i].n = 1)
  /\ \A i \in 1..(Len(t) - 1) : ~(IsWs(t[i]) /\ IsWs(t[i + 1]))

\* C10: every paragraph of every returned chapter is whitespace-normalized.
ParagraphsNormalized ==
  \A c \in Calls :
    Done(c) => \A k \in 1..Len(result[c].chapters) :
                 \A j \in 1..Len(result[c].chapters[k].content) :
                   IsNormalized(result[c].chapters[k].content[j])

\* the scenario of C7: three documents, each with more than 50 characters of
\* text, and a navigation tree of three entries, the k-th for the k-th document
NavScenario(bk) ==
  /\ Len(bk.docs) = 3 /\ Len(bk.toc) = 3
  /\ \A k \in 1..3 : /\ bk.toc[k].href = bk.docs[k].id
                      /\ TextLen(Strip(GetText(bk.docs[k].content))) > 50

\* C7: in that scenario the call returns exactly three chapters, the k-th
\* titled as the k-th navigation entry is.
NavTitlesUsed ==
  \A c \in Calls :
    Done(c) /\ NavScenario(input[c])
      => /\ Len(result[c].chapters) = 3
         /\ \A k \in 1..3 : result[c].chapters[k].chapterTitle = input[c].toc[k].title

\* the scenario of C8: no navigation tree, five documents that all pass
\* is_chapter_content, a spine of five entries
FiveDocScenario(bk) ==
  /\ bk.toc = <<>> /\ Len(bk.docs) = 5 /\ Len(bk.spine) = 5
  /\ \A i \in 1..5 : is_chapter_content(bk.docs[i].file_name, bk.docs[i].content)

\* C8: in that scenario parse_epub_content returns exactly five chapters.
FiveChapters ==
  \A c \in Calls :
    kind[c] = "toc" /\ pc[c] = "done" /\ FiveDocScenario(input[c])
      => Len(result[c].chapters) = 5

\* C4: the selector returns the first result that passes validation, else the
\* result of the last strategy.  An empty result never passes, so when
\* parse_epub_content returns no chapter, the last strategy, the one that
\* follows the spine, has been run and found no chapter either.
EmptyOnlyAfterLastStrategy ==
  \A c \in Calls :
    kind[c] = "toc" /\ pc[c] = "done" /\ result[c].chapters = <<>>
      => extract_chapters_from_spine(input[c]) = <<>>

(***************************************************************************)
(* TWO CALLS at once, each on one of three small books                      *)
(***************************************************************************)
Ch1Name == <<"c", "h", "1", ".", "x", "h", "t", "m", "l">>
BookPlain == MakeBook(<<Ch1Name>>, <<DocPlain>>, <<>>, Identity(1), <<>>)
BookStory == MakeBook(<<Ch1Name>>, <<DocStory>>, <<>>, Identity(1), <<>>)
BookImage == MakeBook(<<Ch1Name>>, <<DocImage>>, <<ImagePathA>>, Identity(1), <<>>)
TwoCallBooks == {BookPlain, BookStory, BookImage}

InitTwo ==
  /\ InitCommon
  /\ kind \in [Calls -> {"toc", "spine"}]
  /\ input \in [Calls -> TwoCallBooks]
  /\ pc = [c \in Calls |-> "write"]

SpecTwo == InitTwo /\ [][Next]_vars

\* number, title and paragraph list agree, chapter by chapter
SameOutput(a, b) ==
  /\ Len(a) = Len(b)
  /\ \A k \in 1..Len(a) : /\ a[k].chapterNumber = b[k].chapterNumber
                           /\ a[k].chapterTitle = b[k].chapterTitle
                           /\ a[k].content = b[k].content

\* C2: two runs of the same parser on the same book return the same chapters.
Idempotent ==
  \A c, d \in Calls :
    Done(c) /\ Done(d) /\ kind[c] = kind[d] /\ input[c] = input[d]
      => SameOutput(result[c].chapters, result[d].chapters)

\* the chapters a call returns when it works on its own bytes only
OwnChapters(c) ==
  IF kind[c] = "toc"
  THEN ParseItems(SortByName(input[c].docs), result[c].images, LoopStart).chapters
  ELSE extract_chapters_from_spine(input[c])

\* C3: whatever the interleaving, each call returns the chapters of its own book.
CallsIsolated ==
  \A c \in Calls : Done(c) => result[c].chapters = OwnChapters(c)

(***************************************************************************)
(* validate_parsed_content, which the tests import from epub_parser and     *)
(* which epub_parser does not define.  What is known of it: an empty result *)
(* is rejected with score 0.0; nothing fixes the thresholds that decide a   *)
(* result with chapters, so every verdict is possible for one.  The score   *)
(* is counted in steps of 1/MaxScore.                                       *)
(***************************************************************************)
MaxScore == 4
Verdicts == [is_valid : BOOLEAN, score : 0..MaxScore]

\* A faulty variant of validate_parsed_content: nothing special about the
\* empty result.
ValidateAnyVerdict(chapters) == Verdicts

\* the set of verdicts validate_parsed_content may return
validate_parsed_content(chapters) ==
  IF chapters = <<>> THEN {[is_valid |-> FALSE, score |-> 0]} ELSE Verdicts

\* the extraction results handed to the validator
ResultSamples == {<<>>} \cup {extract_chapters_from_spine(b) : b \in NavBooks}

InitValidate ==
  /\ debug_file = NoBook
  /\ temp_files = <<>>
  /\ temp_path = [c \in Calls |-> 0]
  /\ book = [c \in Calls |-> NoBook]
  /\ used_uuids = {}
  /\ validation = [c \in Calls |-> NoVerdict]
  /\ returned = [c \in Calls |-> NotReturned]
  /\ NoDownloads
  /\ kind = [c \in Calls |-> IF c = "A" THEN "validate" ELSE "none"]
  /\ input = [c \in Calls |-> NoBook]
  /\ pc = [c \in Calls |-> IF c = "A" THEN "validate" ELSE "done"]
  /\ \E chapters \in ResultSamples :
       result = [c \in Calls |-> IF c = "A" THEN [chapters |-> chapters, images |-> <<>>]
                                 ELSE NoResult]

Validate(c) ==
  /\ kind[c] = "validate" /\ pc[c] = "validate"
  /\ \E v \in validate_parsed_content(result[c].chapters) :
       validation' = [validation EXCEPT ![c] = v]
  /\ pc' = [pc EXCEPT ![c] = "done"]
  /\ UNCHANGED <<kind, input, debug_file, temp_files, temp_path, book, result, used_uuids,
                 returned, dlvars>>

NextValidate == \E c \in Calls : Validate(c)

SpecValidate == InitValidate /\ [][NextValidate]_vars

\* C5: the validation of a result without chapters is (False, 0.0).
EmptyResultRejected ==
  \A c \in Calls :
    kind[c] = "validate" /\ pc[c] = "done" /\ result[c].chapters = <<>>
      => validation[c] = [is_valid |-> FALSE, score |-> 0]

\* C5, its case: the validator has returned for a result without chapters.
EmptyResultValidated ==
  \E c \in Calls : kind[c] = "validate" /\ pc[c] = "done" /\ result[c].chapters = <<>>

(***************************************************************************)
(* ONE CALL on a book with documents the parser rejects                     *)
(***************************************************************************)
ChName(d) == <<"c", "h", d, ".", "x", "h", "t", "m", "l">>
FailNames == <<ChName("1"), ChName("2"), ChName("3")>>

\* rejected markup in a document of more than 800 bytes, and of 300 to 800
DocRejected == Html(<<P(Words(600)), Bad(300)>>)
DocRejectedSmall == Html(<<P(Words(300)), Bad(100)>>)
\* a single paragraph that is too short to be kept
DocTiny == Html(<<P(<<X(5)>>)>>)

FailLib == {DocRejected, DocRejectedSmall, DocTiny, DocShort, DocLoose, DocPlain, DocTwoH2}

MaxFailDocs == 2

FailBooks ==
  {MakeBook(FailNames, contents, <<>>, Identity(Len(contents)), <<>>) :
     contents \in UNION {[1..n -> FailLib] : n \in 1..MaxFailDocs}}

InitFail ==
  /\ InitCommon
  /\ \E k \in {"toc", "spine"}, b \in FailBooks :
       /\ kind = [c \in Calls |-> IF c = "A" THEN k ELSE "none"]
       /\ input = [c \in Calls |-> IF c = "A" THEN b ELSE NoBook]
  /\ pc = [c \in Calls |-> IF c = "A" THEN "write" ELSE "done"]

SpecFail == InitFail /\ [][Next]_vars

\* the call has returned or has ended with an exception
Ended(c) == kind[c] \in {"toc", "spine"} /\ pc[c] \in {"done", "raised"}

\* BeautifulSoup(content, 'html.parser') with the unwanted tags decomposed
Soup(content) == Decompose(content, {"script", "style", "nav", "header", "footer"})

\* the document alone gives the parser no chapter: the classifier rejects it
\* or it has no h2 and no paragraph to extract (parse_epub_content); it cannot
\* be parsed or its text is not longer than 50 characters (spine)
DocYieldsNothing(k, doc) ==
  IF k = "toc"
  THEN \/ ~is_chapter_content(doc.file_name, doc.content)
       \/ /\ ~Raises(doc.content)
          /\ FindAll(Soup(doc.content), {"h2"}) = <<>>
          /\ extract_chapter_content_with_images(Soup(doc.content), <<>>).content = <<>>
  ELSE \/ Raises(doc.content)
       \/ TextLen(Strip(JoinTexts(extract_content_from_soup(Soup(doc.content)))))
            <= MinSpineContentLen

YieldsNothing(k, bk) == \A i \in 1..Len(bk.docs) : DocYieldsNothing(k, bk.docs[i])

\* C11: a call on a book none of whose documents yields a chapter does not
\* raise; it returns, and the chapter list it returns is empty.
NoChaptersNoRaise ==
  \A c \in Calls :
    Ended(c) /\ YieldsNothing(kind[c], book[c])
      => pc[c] = "done" /\ result[c].chapters = <<>>

\* C11, its case: a call has ended on a book with documents, one of them with
\* markup the parser rejects, that yield no chapter.
NoChaptersReturned ==
  \E c \in Calls :
    /\ Ended(c) /\ kind[c] = "toc"
    /\ YieldsNothing(kind[c], book[c])
    /\ \E i \in 1..Len(book[c].docs) : Raises(book[c].docs[i].content)

\* the book without the documents the parser rejects
WithoutRaising(bk) == [bk EXCEPT !.docs = SelectSeq(bk.docs, LAMBDA d : ~Raises(d.content))]

\* what the parser returns for the book
ChaptersOf(k, bk) ==
  IF k = "toc" THEN ParseItems(SortByName(bk.docs), <<>>, LoopStart).chapters
  ELSE extract_chapters_from_spine(bk)

\* C12: a call on a book with a document whose processing raises still
\* returns, and returns the chapters of the other documents, numbered 1, 2, ...
FailureContained ==
  \A c \in Calls :
    Ended(c) /\ (\E i \in 1..Len(book[c].docs) : Raises(book[c].docs[i].content))
      => /\ pc[c] = "done"
         /\ SameOutput(result[c].chapters, ChaptersOf(kind[c], WithoutRaising(book[c])))
         /\ \A k \in 1..Len(result[c].chapters) : result[c].chapters[k].chapterNumber = k

(***************************************************************************)
(* ONE FUNCTION on one document: is_chapter_content, extract_chapter_title, *)
(* extract_chapter_content_with_images or extract_content_from_soup is      *)
(* called on the document of a one-document book and returns.               *)
(***************************************************************************)
Chapter1Name == <<"c", "h", "a", "p", "t", "e", "r", "1", ".", "h", "t", "m", "l">>
ClassifyNames == {
  Chapter1Name,
  <<"c", "o", "v", "e", "r", ".", "x", "h", "t", "m", "l">>,
  <<"T", "e", "x", "t", "/", "C", "o", "v", "e", "r", ".", "x", "h", "t", "m", "l">>,
  <<"O", "E", "B", "P", "S", "/", "C", "O", "V", "E", "R", "1", ".", "h", "t", "m", "l">>,
  <<"c", "h", "2", ".", "x", "h", "t", "m", "l">>,
  <<"R", "e", "c", "o", "v", "e", "r", "y", ".", "h", "t", "m", "l">>}

\* file names of front and back matter
MatterNames == {
  <<"d", "e", "d", "i", "c", "a", "t", "i", "o", "n", ".", "x", "h", "t", "m", "l">>,
  <<"A", "c", "k", "n", "o", "w", "l", "e", "d", "g", "m", "e", "n", "t", "s", ".", "x", "h", "t", "m", "l">>,
  <<"T", "e", "x", "t", "/", "T", "O", "C", ".", "x", "h", "t", "m", "l">>,
  <<"c", "o", "p", "y", "r", "i", "g", "h", "t", ".", "h", "t", "m", "l">>,
  <<"T", "i", "t", "l", "e", "P", "a", "g", "e", ".", "x", "h", "t", "m", "l">>}

\* test_is_chapter_content: 50 times "<p>Long story content here... "
LongStoryLine == <<X(4), Sp(1), X(5), Sp(1), X(7), Sp(1), X(7), Sp(1)>>
DocLongStory == Html([i \in 1..50 |-> P(LongStoryLine)])

\* "Chapter 1" and then filler words, w words in all, c of them "chapter",
\* evenly spread
DensityWord(c, w, j) ==
  IF (j - 1) % (w \div c) = 0 /\ (j - 1) \div (w \div c) < c THEN Run("chapter", 1)
  ELSE IF j = 2 THEN D(1)
  ELSE X(40)
DensityDoc(c, w) ==
  Html(<<P([i \in 1..(2 * w - 1) |-> IF i % 2 = 0 THEN Sp(1) ELSE DensityWord(c, w, (i + 1) \div 2)])>>)
DensityCases == {<<50, 400>>, <<50, 2500>>, <<50, 4000>>, <<13, 600>>, <<13, 650>>, <<12, 400>>}

\* a chapter marker, then the words of front matter or of a preview, then 600
\* characters of text
MarkerHeads == {ChapterHead(3), <<Run("prologue", 1)>>, <<Run("epilogue", 1)>>}
ExclusionWords == {
  <<Run("contents", 1), Sp(1), Lit("prologue")>>,
  <<Run("glossary", 1)>>,
  <<Run("about", 1), Sp(1), Lit("the"), Sp(1), Lit("author")>>,
  <<Run("acknowledgments", 1)>>,
  <<Lit("preview"), Sp(1), Lit("of"), Sp(1), X(5), Sp(1), Lit("book")>>,
  <<Lit("book"), Sp(1), X(3), Sp(1), Lit("of"), Sp(1), X(5), Sp(1), Lit("series")>>,
  <<Lit("coming"), Sp(1), Lit("in"), Sp(1), Lit("book"), Sp(1), X(3)>>,
  <<Lit("next"), Sp(1), Lit("book"), Lit(":")>>,
  <<Lit("continues"), Sp(1), Lit("in"), Sp(1), Lit("book")>>}
MarkedDoc(head, words) == Html(<<P(head \o <<Sp(1)>> \o words \o <<Sp(1)>> \o Words(600))>>)
MarkedExcludedDocs == {MarkedDoc(head, words) : head \in MarkerHeads, words \in ExclusionWords}
\* the same with harmless words
MarkedPlainDocs == {MarkedDoc(head, <<X(8)>>) : head \in MarkerHeads}

\* documents that are nothing but markup the parser rejects, of 226, 800, 801
\* and 1026 bytes
RejectedDocs == {Html(<<Bad(n)>>) : n \in {200, 774, 775, 1000}}

ClassifyInputs ==
  {<<name, content>> : name \in ClassifyNames \cup MatterNames,
                       content \in {DocPlain, DocStory, DocShort, DocRejected, DocRejectedSmall,
                                    DocLongStory}}
  \cup {<<Chapter1Name, DensityDoc(cw[1], cw[2])>> : cw \in DensityCases}
  \cup {<<Chapter1Name, content>> :
          content \in MarkedExcludedDocs \cup MarkedPlainDocs \cup RejectedDocs}

\* headings: <h1>Chapter One: The Beginning</h1>, <h1>CHAPTER 7</h1>, an h2 of
\* 250 characters, <h1>The</h1> before <h2>Chapter 12:zzzzz</h2>, <h1>IV</h1>
\* alone, and <h1>A</h1> before a second, longer h1
DocChapterOne ==
  <<El("h1", <<Txt(<<Run("chapter", 1), Sp(1), X(3), Lit(":"), Sp(1), Run("the", 1), Sp(1),
                     X(9)>>)>>)>>
DocHeadingBare == <<El("h1", <<Txt(<<Run("chapter", 2), Sp(2), D(7)>>)>>), P(Words(300))>>
DocHeadingLong == <<El("h2", <<Txt(<<X(100), Sp(1), X(149)>>)>>), P(Words(300))>>
DocHeadingStop ==
  <<El("h1", <<Txt(<<Sp(1), Run("the", 1), Nl(1)>>)>>),
    El("h2", <<Txt(<<Run("chapter", 0), Sp(1), D(12), Lit(":"), X(5)>>)>>), P(Words(300))>>
DocHeadingShort == <<El("h1", <<Txt(<<X(2)>>)>>), P(Words(300))>>
DocSecondH1 ==
  <<El("h1", <<Txt(<<Run("a", 1)>>)>>), El("h1", <<Txt(<<X(4), Sp(1), X(5)>>)>>),
    P(Words(300))>>
\* test_extract_chapter_title_para_fallback: <p>PROLOGUE</p><p>Content</p>
DocPrologue == <<P(<<Run("prologue", 2)>>), P(<<X(7)>>)>>

TitleInputs ==
  {<<Chapter1Name, content>> :
     content \in {DocPlain, DocChapterOne, DocHeadingBare, DocHeadingLong, DocHeadingStop,
                  DocHeadingShort, DocSecondH1, DocPrologue, DocMessy, DocTwoH2, DocStory}}

\* <p>pre<em>inner</em>post</p>, an empty pre or post being no text node
InlineParagraph(pre, inner, post) ==
  <<El("p", (IF pre = <<>> THEN <<>> ELSE <<Txt(pre)>>)
            \o <<El("em", <<Txt(inner)>>)>>
            \o (IF post = <<>> THEN <<>> ELSE <<Txt(post)>>))>>
GoQuoted == <<Lit("\""), Run("go", 1), Lit("!"), Lit("\"")>>
\* <p>This is <em>bold</em> text.</p>
DocMerge == InlineParagraph(<<X(4), Sp(1), X(2), Sp(1)>>, <<X(4)>>, <<Sp(1), X(4), Lit(".")>>)
InlineDocs ==
  {InlineParagraph(pre, inner, post) :
     pre \in {<<>>, <<X(4), Sp(1), X(2), Sp(1)>>, <<Nl(1), Sp(4), X(3), Sp(2)>>},
     inner \in {<<X(4)>>, GoQuoted},
     post \in {<<>>, <<Sp(1), X(4), Lit(".")>>}}

\* Line one<br/>Line two, at the top level and inside a div
LineOne == <<X(4), Sp(1), Lit("one")>>
LineTwo == <<X(4), Sp(1), Lit("two")>>
DocBreak == <<Txt(LineOne), El("br", <<>>), Txt(LineTwo)>>
DocBreakInDiv == <<El("div", <<Txt(LineOne), El("br", <<>>), Txt(LineTwo)>>)>>
BreakDocs == {DocBreak, DocBreakInDiv}

\* test_extract_short_dialogue: three short paragraphs in a div
HelloSaid == <<Lit("\""), X(6), Lit("\""), Sp(1), Lit("he"), Sp(1), Lit("said"), Lit(".")>>
HiReplied == <<Lit("\""), X(3), Lit("\""), Sp(1), Lit("she"), Sp(1), X(7), Lit(".")>>
DocDialogue ==
  <<Txt(<<Nl(1), Sp(4)>>),
    El("div", <<Txt(<<Nl(1), Sp(8)>>), P(HelloSaid), Txt(<<Nl(1), Sp(8)>>), P(HiReplied),
                Txt(<<Nl(1), Sp(8)>>), P(GoQuoted), Txt(<<Nl(1), Sp(4)>>)>>),
    Txt(<<Nl(1), Sp(4)>>)>>

\* He said <em>no</em> again: as the content of the body, as the whole
\* fragment, and inside a div
HeSaid == <<Txt(<<Run("he", 1), Sp(1), Lit("said"), Sp(1)>>), El("em", <<Txt(<<X(2)>>)>>),
            Txt(<<Sp(1), X(5)>>)>>
HeSaidNoAgain == <<Run("he", 1), Sp(1), Lit("said"), Sp(1), X(2), Sp(1), X(5)>>
LooseInlineDocs == {Html(HeSaid), HeSaid, Html(<<El("div", HeSaid)>>)}

ContentInputs ==
  {<<Chapter1Name, content>> :
     content \in InlineDocs \cup BreakDocs \cup LooseInlineDocs
                 \cup {DocDialogue, DocMessy, DocTopLevel, DocPlain}}

UnitInputs(k) ==
  CASE k = "is_chapter_content" -> ClassifyInputs
    [] k = "extract_chapter_title" -> TitleInputs
    [] OTHER -> ContentInputs

UnitKinds == {"is_chapter_content", "extract_chapter_title",
              "extract_chapter_content_with_images", "extract_content_from_soup"}

InitDoc ==
  /\ InitCommon
  /\ \E k \in UnitKinds : \E nc \in UnitInputs(k) :
       /\ kind = [c \in Calls |-> IF c = "A" THEN k ELSE "none"]
       /\ input = [c \in Calls |-> IF c = "A"
                                   THEN MakeBook(<<nc[1]>>, <<nc[2]>>, <<>>, Identity(1), <<>>)
                                   ELSE NoBook]
  /\ pc = [c \in Calls |-> IF c = "A" THEN "call" ELSE "done"]

\* the document the function is called on
TheDoc(c) == input[c].docs[1]

Return(c, value) ==
  /\ returned' = [returned EXCEPT ![c] = value]
  /\ pc' = [pc EXCEPT ![c] = "done"]
  /\ UNCHANGED <<kind, input, debug_file, temp_files, temp_path, book, result, used_uuids,
                 validation, dlvars>>

Classify(c) ==
  /\ kind[c] = "is_chapter_content" /\ pc[c] = "call"
  /\ Return(c, is_chapter_content(TheDoc(c).file_name, TheDoc(c).content))

Title(c) ==
  /\ kind[c] = "extract_chapter_title" /\ pc[c] = "call"
  /\ Return(c, extract_chapter_title(TheDoc(c).content))

\* the paragraphs returned, for a book without images
Content(c) ==
  /\ kind[c] = "extract_chapter_content_with_images" /\ pc[c] = "call"
  /\ Return(c, extract_chapter_content_with_images(TheDoc(c).content, <<>>).content)

SpineContent(c) ==
  /\ kind[c] = "extract_content_from_soup" /\ pc[c] = "call"
  /\ Return(c, extract_content_from_soup(TheDoc(c).content))

NextDoc ==
  \E c \in Calls :
    \/ Classify(c)
    \/ Title(c)
    \/ Content(c)
    \/ SpineContent(c)

SpecDoc == InitDoc /\ [][NextDoc]_vars

Returned(c, k) == kind[c] = k /\ pc[c] = "done"

\* the path holds the letters c, o, v, e, r in a row, in either case
HasCover(p) ==
  \E i \in 1..(Len(p) - 4) :
    /\ p[i] \in {"c", "C"} /\ p[i + 1] \in {"o", "O"} /\ p[i + 2] \in {"v", "V"}
    /\ p[i + 3] \in {"e", "E"} /\ p[i + 4] \in {"r", "R"}

\* C13: is_chapter_content returns False for a document whose path contains
\* "cover" in any casing, whatever its content.
CoverRejected ==
  \A c \in Calls :
    Returned(c, "is_chapter_content") /\ HasCover(TheDoc(c).file_name)
      => returned[c] = FALSE

\* C13, its case: the classifier has returned for a path with "Cover" or
\* "COVER" in it and a content that it accepts under the name chapter1.html.
CoverRejectedReached ==
  \E c \in Calls :
    /\ Returned(c, "is_chapter_content")
    /\ HasCover(TheDoc(c).file_name)
    /\ ~IsInfix(<<"c", "o", "v", "e", "r">>, TheDoc(c).file_name)
    /\ is_chapter_content(Chapter1Name, TheDoc(c).content)

\* C14: a document that starts with "Chapter 1", has c mentions of "chapter"
\* among its w words and is otherwise acceptable is rejected exactly when
\* c > 12 and c / w > 2%.
DensityRule ==
  \A c \in Calls : \A cw \in DensityCases :
    Returned(c, "is_chapter_content") /\ TheDoc(c).content = DensityDoc(cw[1], cw[2])
      => (returned[c] = FALSE <=> (cw[1] > 12 /\ 100 * cw[1] > 2 * cw[2]))

\* C14, its case: the classifier has returned for the document with 50
\* mentions in 4000 words.
DensityRuleReached ==
  \E c \in Calls :
    /\ Returned(c, "is_chapter_content")
    /\ TheDoc(c).content = DensityDoc(50, 4000)
    /\ returned[c] = TRUE

\* C15: is_chapter_content returns True for chapter1.html with the long
\* narrative text of test_is_chapter_content, which has no chapter marker.
LongStoryAccepted ==
  \A c \in Calls :
    /\ Returned(c, "is_chapter_content")
    /\ TheDoc(c).file_name = Chapter1Name
    /\ TheDoc(c).content = DocLongStory
    => returned[c] = TRUE

ContentKinds == {"extract_chapter_content_with_images", "extract_content_from_soup"}
ReturnedContent(c) == kind[c] \in ContentKinds /\ pc[c] = "done"

\* the text of an element, trimmed and with every stretch of whitespace one blank
NormalText(el) == CollapseWs(Strip(GetText(el.kids)))

\* C16: a document that is one <p> with text and an inline child yields
\* exactly one paragraph, the text of the <p> and of its inline child in
\* order; <p>This is <em>bold</em> text.</p> yields "This is bold text.".
MergeRule ==
  \A c \in Calls :
    ReturnedContent(c) /\ TheDoc(c).content \in InlineDocs
      => returned[c] = <<NormalText(TheDoc(c).content[1])>>

\* C17: loose text split by <br/> and outside any <p> yields one paragraph
\* per side of the break, in order: "Line one", "Line two".
BreakRule ==
  \A c \in Calls :
    ReturnedContent(c) /\ TheDoc(c).content \in BreakDocs
      => returned[c] = <<LineOne, LineTwo>>

HasSentenceEnd(text) == \E i \in 1..Len(text) : text[i].k \in {".", "!", "?"}

\* C18: every <p> whose text holds sentence-ending punctuation is among the
\* paragraphs returned, however short; the three paragraphs of the dialogue
\* are returned in order.
ShortSentenceKept ==
  \A c \in Calls :
    ReturnedContent(c)
      => /\ \A p \in {FindAll(TheDoc(c).content, {"p"})[i] :
                        i \in 1..Len(FindAll(TheDoc(c).content, {"p"}))} :
              HasSentenceEnd(NormalText(p))
                => \E k \in 1..Len(returned[c]) : returned[c][k] = NormalText(p)
         /\ TheDoc(c).content = DocDialogue
              => returned[c] = <<HelloSaid, HiReplied, GoQuoted>>

ReturnedTitle(c) == kind[c] = "extract_chapter_title" /\ pc[c] = "done"

\* the trimmed texts of the headings h1..h4 of a document that are longer than
\* 2 characters and not one of chapter/the/a/an
UsableHeading(text) ==
  /\ TextLen(text) > 2
  /\ Lower(text) \notin {<<Lit("chapter")>>, <<Lit("the")>>, <<Lit("a")>>, <<Lit("an")>>}
UsableHeadings(soup) ==
  {text \in {Strip(GetText(FindAll(soup, {"h1", "h2", "h3", "h4"})[i].kids)) :
               i \in 1..Len(FindAll(soup, {"h1", "h2", "h3", "h4"}))} : UsableHeading(text)}

\* "Chapter <digits>" followed by '-' or ':' at the start becomes "Chapter <digits>: "
SeparatorNormalized(text) ==
  IF /\ Len(text) >= 3 /\ text[1].k = "chapter"
     /\ SkipWs(text, 2) <= Len(text) /\ text[SkipWs(text, 2)].k = "D"
     /\ SkipWs(text, SkipWs(text, 2) + 1) <= Len(text)
     /\ text[SkipWs(text, SkipWs(text, 2) + 1)].k \in {"-", ":"}
  THEN <<Run("chapter", 1), Sp(1), text[SkipWs(text, 2)], Lit(":"), Sp(1)>>
       \o SubSeq(text, SkipWs(text, SkipWs(text, SkipWs(text, 2) + 1) + 1), Len(text))
  ELSE text

\* C19 as stated: with a usable heading in the document the title is that
\* heading's text, its "Chapter <digits>" separator normalized.
HeadingRuleAsStated ==
  \A c \in Calls :
    ReturnedTitle(c) /\ UsableHeadings(TheDoc(c).content) # {}
      => \E text \in UsableHeadings(TheDoc(c).content) : returned[c] = SeparatorNormalized(text)

\* the first heading of the first level h1..h4 whose first heading is usable;
\* <<>> when no level has one
FirstOfLevel(soup, tag) ==
  IF FindAll(soup, {tag}) = <<>> THEN <<>> ELSE Strip(GetText(FindAll(soup, {tag})[1].kids))
LeadingHeading(soup) ==
  FirstNonEmpty([i \in 1..4 |->
                   IF UsableHeading(FirstOfLevel(soup, <<"h1", "h2", "h3", "h4">>[i]))
                   THEN FirstOfLevel(soup, <<"h1", "h2", "h3", "h4">>[i]) ELSE <<>>])

\* a heading that is only "Chapter <digits>" becomes "Chapter <digits>"
BareNormalized(text) ==
  IF /\ Len(text) >= 2 /\ text[1].k = "chapter"
     /\ SkipWs(text, 2) = Len(text) /\ text[Len(text)].k = "D"
  THEN <<Run("chapter", 1), Sp(1), text[Len(text)]>>
  ELSE text

\* C19: when the first heading of some level h1..h4 is usable, the title is
\* the first 200 characters of the text of the first such heading, levels
\* taken in the order h1..h4, with "Chapter <digits>" and a following '-' or
\* ':' normalized to "Chapter <digits>: " and a bare "Chapter <digits>" to
\* that spelling; "Chapter 7 - The zzzzz" gives "Chapter 7: The zzzzz" and
\* "Chapter One: The Beginning" is returned unchanged.
HeadingRule ==
  \A c \in Calls :
    ReturnedTitle(c)
      => /\ LeadingHeading(TheDoc(c).content) # <<>>
              => returned[c] = Take(BareNormalized(SeparatorNormalized(
                                      LeadingHeading(TheDoc(c).content))), 200)
         /\ TheDoc(c).content = DocPlain
              => returned[c] = <<Run("chapter", 1), Sp(1), D(7), Lit(":"), Sp(1),
                                 Run("the", 1), Sp(1), X(5)>>
         /\ TheDoc(c).content = DocChapterOne
              => returned[c] = Strip(GetText(DocChapterOne))

\* C19, its case: the title of the document with the heading
\* "Chapter 7 - The zzzzz" has been returned.
HeadingRuleReached ==
  \E c \in Calls :
    /\ ReturnedTitle(c)
    /\ TheDoc(c).content = DocPlain
    /\ returned[c] # Strip(GetText(FindAll(DocPlain, {"h1"})))

\* C20: for <p>PROLOGUE</p><p>Content</p> extract_chapter_title returns
\* exactly "PROLOGUE".
PrologueAlone ==
  \A c \in Calls :
    ReturnedTitle(c) /\ TheDoc(c).content = DocPrologue
      => returned[c] = <<Run("prologue", 2)>>

\* the name fragments of non-narrative documents: cover, table of contents,
\* copyright, title page, acknowledgments, dedication
NonNarrativeFragments == {
  <<"c", "o", "v", "e", "r">>,
  <<"t", "o", "c">>,
  <<"c", "o", "p", "y", "r", "i", "g", "h", "t">>,
  <<"t", "i", "t", "l", "e", "p", "a", "g", "e">>,
  <<"a", "c", "k", "n", "o", "w", "l", "e", "d", "g", "m", "e", "n", "t", "s">>,
  <<"d", "e", "d", "i", "c", "a", "t", "i", "o", "n">>}

\* C21: is_chapter_content returns False for a document whose path contains,
\* in any casing, one of the fragments cover, toc, copyright, titlepage,
\* acknowledgments, dedication, whatever its content.
NonNarrativeRejected ==
  \A c \in Calls :
    /\ Returned(c, "is_chapter_content")
    /\ \E fragment \in NonNarrativeFragments : IsInfix(fragment, LowerPath(TheDoc(c).file_name))
    => returned[c] = FALSE

\* C22: a document that the density rule, the front-matter rule or the
\* preview rule rejects is rejected although it starts with "Chapter 3",
\* "Prologue" or "Epilogue" and has more than 500 characters of text.
ExclusionsWin ==
  \A c \in Calls :
    /\ Returned(c, "is_chapter_content")
    /\ TheDoc(c).file_name = Chapter1Name
    /\ TheDoc(c).content \in MarkedExcludedDocs \cup {DensityDoc(50, 400), DensityDoc(13, 600)}
    => returned[c] = FALSE

\* C22, its case: the classifier has rejected a marked document with a
\* preview in it, and has accepted a document with the same marker and no
\* such words.
ExclusionsWinReached ==
  \E c \in Calls :
    /\ Returned(c, "is_chapter_content")
    /\ TheDoc(c).content = MarkedDoc(ChapterHead(3), <<Lit("next"), Sp(1), Lit("book"), Lit(":")>>)
    /\ returned[c] = FALSE
    /\ is_chapter_content(Chapter1Name, MarkedDoc(ChapterHead(3), <<X(8)>>))

\* C23: for a document whose path is not excluded and whose content the
\* parser rejects, is_chapter_content returns, and returns True exactly when
\* the content is longer than 800 bytes.
AnalysisFailureFallback ==
  \A c \in Calls :
    /\ Returned(c, "is_chapter_content")
    /\ TheDoc(c).file_name \in {Chapter1Name, <<"c", "h", "2", ".", "x", "h", "t", "m", "l">>}
    /\ Raises(TheDoc(c).content)
    => returned[c] = (RawLen(TheDoc(c).content) > 800)

\* C23, its case: the classifier has returned for unparsable contents of 801
\* bytes and of 800 bytes or less.
AnalysisFailureReached ==
  \E c \in Calls :
    /\ Returned(c, "is_chapter_content")
    /\ TheDoc(c).file_name = Chapter1Name
    /\ Raises(TheDoc(c).content)
    /\ RawLen(TheDoc(c).content) = 801
    /\ is_chapter_content(Chapter1Name, Html(<<Bad(774)>>)) = FALSE

\* C24: loose text and inline elements that no line break or block element
\* separates yield exactly one paragraph, also directly under the root:
\* He said <em>no</em> again yields "He said no again".
InlineNeverSplits ==
  \A c \in Calls :
    Returned(c, "extract_content_from_soup") /\ TheDoc(c).content \in LooseInlineDocs
      => returned[c] = <<HeSaidNoAgain>>

(***************************************************************************)
(* ONE CALL on a book of distinct documents whose paragraphs carry marks    *)
(***************************************************************************)
\* a paragraph of n letters that ends in the number k
Marked(n, k) == <<X(n), Sp(1), D(k)>>
Mark(k) == Marked(150, k)

\* <h1>Chapter 1</h1> and paragraphs, one of them inside a div between text
\* that stands in no <p>
DocOrdered ==
  Html(<<El("h1", <<Txt(ChapterHead(1))>>), P(Mark(11)),
         El("div", <<Txt(Mark(12)), P(Mark(13)), El("em", <<Txt(Mark(14))>>)>>),
         P(Mark(15)), P(Mark(16))>>)

\* narrative paragraphs without any heading or chapter marker
DocUntitled ==
  Html(<<P(<<Run("he", 1), Sp(1), Lit("said"), Sp(1)>> \o Marked(800, 21)),
         P(Marked(800, 22))>>)

\* a second h2 inside a div that follows the first h2
DocNested ==
  Html(<<El("h2", <<Txt(ChapterHead(3))>>), P(Mark(31)),
         El("div", <<P(Mark(32)), El("h2", <<Txt(ChapterHead(4))>>), P(Mark(33))>>),
         P(Mark(34))>>)

\* two h2 sections, with paragraphs in a div and in a blockquote
DocSectioned ==
  Html(<<P(Mark(40)),
         El("h2", <<Txt(ChapterHead(5))>>), P(Mark(41)), P(Mark(42)),
         El("h2", <<Txt(ChapterHead(6))>>), El("div", <<P(Mark(43))>>),
         El("blockquote", <<P(Mark(44))>>)>>)

\* a paragraph inside an article that follows the h2
DocArticle ==
  Html(<<El("h2", <<Txt(ChapterHead(7))>>), P(Mark(51)),
         El("article", <<P(Mark(52))>>), P(Mark(53)), P(Mark(54))>>)

\* one marked paragraph of 30, of 50 and of 51 characters
DocThirty == Html(<<P(Marked(27, 61))>>)
DocFifty == Html(<<P(Marked(47, 71))>>)
DocFiftyOne == Html(<<P(Marked(48, 81))>>)

MarkedLib == {DocOrdered, DocUntitled, DocNested, DocSectioned, DocArticle,
              DocH2Skips, DocThirty, DocFifty, DocFiftyOne}

\* file names out of their sorted order, and names of front matter
UnsortedNames == <<ChName("2"), ChName("1"), ChName("3")>>
FrontNames == <<<<"c", "o", "v", "e", "r", ".", "x", "h", "t", "m", "l">>,
                <<"n", "a", "v", ".", "x", "h", "t", "m", "l">>,
                <<"t", "o", "c", ".", "x", "h", "t", "m", "l">>>>

MaxMarkedDocs == 2

\* the sequences of distinct documents
Distinct(contents) ==
  \A i, j \in 1..Len(contents) : contents[i] = contents[j] => i = j

MarkedBooks ==
  UNION {{MakeBook(names, contents, <<>>, spine, <<>>) :
            names \in {UnsortedNames, FrontNames},
            spine \in {Identity(Len(contents)), ReversedSpine(Len(contents))}} :
         contents \in {cs \in UNION {[1..n -> MarkedLib] : n \in 1..MaxMarkedDocs} :
                         Distinct(cs)}}

InitMarked ==
  /\ InitCommon
  /\ \E k \in {"toc", "spine"}, b \in MarkedBooks :
       /\ kind = [c \in Calls |-> IF c = "A" THEN k ELSE "none"]
       /\ input = [c \in Calls |-> IF c = "A" THEN b ELSE NoBook]
  /\ pc = [c \in Calls |-> IF c = "A" THEN "write" ELSE "done"]

SpecMarked == InitMarked /\ [][Next]_vars

\* the call has returned its chapters
Emitted(c) == kind[c] \in {"toc", "spine"} /\ pc[c] = "done"

\* the numbers that end the marked paragraphs of a text, in the order of the text
MarkPositions(t) ==
  {i \in 3..Len(t) : t[i].k = "D" /\ t[i - 1] = Sp(1) /\ t[i - 2].k = "X"}
\* the place of mark m in the text of the document; 0 when it has no such mark
PlaceOf(doc, m) ==
  LET t == GetText(doc.content)
      at == {i \in MarkPositions(t) : t[i].n = m}
  IN IF at = {} THEN 0 ELSE CHOOSE i \in at : \A j \in at : i <= j

\* the mark of an emitted paragraph; 0 when it is not a marked paragraph
MarkAt(par) ==
  IF MarkPositions(par) = {} THEN 0
  ELSE par[CHOOSE i \in MarkPositions(par) : \A j \in MarkPositions(par) : i <= j].n
IsMark(m) == m # 0
ChapterMarks(chapter) ==
  SelectSeq([i \in 1..Len(chapter.content) |-> MarkAt(chapter.content[i])], IsMark)

\* the documents of the book that hold the mark
SourcesOf(b, m) == {i \in 1..Len(b.docs) : PlaceOf(b.docs[i], m) # 0}

\* when document i is visited: by sorted file name, or by place in the spine
VisitRank(k, b, i) ==
  IF k = "toc"
  THEN Cardinality({j \in 1..Len(b.docs) :
                      PathLess(b.docs[j].file_name, b.docs[i].file_name)})
  ELSE CHOOSE n \in 1..Len(b.spine) : b.spine[n] = b.docs[i].id

\* the marks of one chapter come from one document, in the order of its markup
ChapterInOrder(b, marks) ==
  \E d \in 1..Len(b.docs) :
    /\ \A i \in 1..Len(marks) : PlaceOf(b.docs[d], marks[i]) # 0
    /\ \A i, j \in 1..Len(marks) :
         i < j => PlaceOf(b.docs[d], marks[i]) < PlaceOf(b.docs[d], marks[j])

\* chapter x comes from a document visited before that of chapter y, or from
\* an earlier place of the same document
ChapterBefore(k, b, x, y) ==
  \A dx \in SourcesOf(b, x[1]), dy \in SourcesOf(b, y[1]) :
    \/ VisitRank(k, b, dx) < VisitRank(k, b, dy)
    \/ dx = dy /\ PlaceOf(b.docs[dx], x[1]) < PlaceOf(b.docs[dx], y[1])

OrderKept(k, b, chapters) ==
  /\ \A n \in 1..Len(chapters) : ChapterInOrder(b, ChapterMarks(chapters[n]))
  /\ \A m, n \in 1..Len(chapters) :
       m < n /\ ChapterMarks(chapters[m]) # <<>> /\ ChapterMarks(chapters[n]) # <<>>
         => ChapterBefore(k, b, ChapterMarks(chapters[m]), ChapterMarks(chapters[n]))

\* C25: in every emitted chapter the marked paragraphs stand in the order in
\* which their text stands in the markup of their document, and the chapters
\* stand in the order in which their documents and sections were visited.
OrderPreserved ==
  \A c \in Calls : Emitted(c) => OrderKept(kind[c], input[c], result[c].chapters)

\* C25, its case: chapters of two documents that are visited against their
\* manifest order, one of them with several marked paragraphs.
OrderPreservedReached ==
  \E c \in Calls :
    /\ Emitted(c)
    /\ \E m, n \in 1..Len(result[c].chapters) :
         LET x == ChapterMarks(result[c].chapters[m])
             y == ChapterMarks(result[c].chapters[n])
         IN /\ m < n /\ Len(x) > 1 /\ y # <<>>
            /\ \E dx \in SourcesOf(input[c], x[1]), dy \in SourcesOf(input[c], y[1]) :
                 dy < dx

\* the title extractor of the strategy returns the empty string for the document
Untitled(k, doc) ==
  IF k = "toc"
  THEN /\ FindAll(Soup(doc.content), {"h2"}) = <<>>
       /\ extract_chapter_title(Soup(doc.content)) = <<>>
  ELSE extract_chapter_title_from_content(Soup(doc.content)) = <<>>

\* the chapter comes from a document for which the extractor returns nothing
FromUntitled(k, b, chapter) ==
  /\ ChapterMarks(chapter) # <<>>
  /\ \E d \in SourcesOf(b, ChapterMarks(chapter)[1]) : Untitled(k, b.docs[d])

TitlesOf(k, b, chapters) ==
  \A n \in 1..Len(chapters) :
    /\ chapters[n].chapterTitle # <<>>
    /\ FromUntitled(k, b, chapters[n])
         => chapters[n].chapterTitle =
              <<Run("chapter", 1), Sp(1), D(chapters[n].chapterNumber)>>

\* C26: no emitted chapter has an empty title, and the chapter of a document
\* for which the title extractor returns the empty string is titled
\* "Chapter N", N being the number of that chapter.
TitleSynthesized ==
  \A c \in Calls : Emitted(c) => TitlesOf(kind[c], input[c], result[c].chapters)

\* C26, its case: the first chapter comes from an untitled document that was
\* not the first to be visited.
TitleSynthesizedReached ==
  \E c \in Calls :
    /\ Emitted(c)
    /\ result[c].chapters # <<>>
    /\ FromUntitled(kind[c], input[c], result[c].chapters[1])
    /\ \E d \in SourcesOf(input[c], ChapterMarks(result[c].chapters[1])[1]),
          e \in 1..Len(input[c].docs) :
         VisitRank(kind[c], input[c], e) < VisitRank(kind[c], input[c], d)

\* the paragraphs of the spine entry's document; none when the id names no document
SpineParagraphs(b, item_id) ==
  LET found == {i \in 1..Len(b.docs) : b.docs[i].id = item_id} IN
  IF found = {} THEN <<>>
  ELSE extract_content_from_soup(Soup(b.docs[CHOOSE i \in found : TRUE].content))

\* the places of the spine whose joined paragraph text has more than 50 characters
OverThreshold(b) ==
  {n \in 1..Len(b.spine) : TextLen(JoinTexts(SpineParagraphs(b, b.spine[n]))) > 50}

SpineRuleOf(b, chapters) ==
  /\ Len(chapters) = Cardinality(OverThreshold(b))
  /\ \A n \in OverThreshold(b) :
       LET r == Cardinality({m \in OverThreshold(b) : m <= n}) IN
       /\ chapters[r].chapterNumber = r
       /\ chapters[r].content = SpineParagraphs(b, b.spine[n])

\* C27: the spine strategy emits one chapter for exactly the spine entries
\* whose document has joined paragraph text of more than 50 characters, in
\* spine order and numbered without gaps, whatever the file names.
SpineRule ==
  \A c \in Calls :
    kind[c] = "spine" /\ pc[c] = "done" => SpineRuleOf(input[c], result[c].chapters)

\* C27, its case: a spine with an id that names no document, then a document
\* named nav.xhtml with text over the threshold, then one named cover.xhtml
\* with text of exactly 50 characters.
SpineRuleReached ==
  \E c \in Calls :
    /\ kind[c] = "spine" /\ pc[c] = "done"
    /\ input[c].spine = ReversedSpine(2)
    /\ input[c].docs[1].file_name = FrontNames[1]
    /\ input[c].docs[1].content = DocFifty
    /\ Len(result[c].chapters) = 1

\* the marks of the <p> elements that follow the first h2 of the markup
RECURSIVE AfterFirstH2(_, _)
AfterFirstH2(els, seen) ==
  IF els = <<>> THEN {}
  ELSE IF Head(els).tag = "h2" THEN AfterFirstH2(Tail(els), TRUE)
  ELSE (IF seen THEN {MarkAt(Strip(GetText(Head(els).kids)))} \ {0} ELSE {})
       \cup AfterFirstH2(Tail(els), seen)

\* the documents that parse_epub_content splits at their h2 elements
SplitDocs(b) ==
  {d \in 1..Len(b.docs) :
     /\ is_chapter_content(b.docs[d].file_name, b.docs[d].content)
     /\ FindAll(Soup(b.docs[d].content), {"h2"}) # <<>>}

ChaptersWith(chapters, m) ==
  {n \in 1..Len(chapters) :
     \E i \in 1..Len(chapters[n].content) : MarkAt(chapters[n].content[i]) = m}

\* C30: the chapters of a document that is split at its h2 elements partition
\* its paragraphs: every marked <p> after the first h2 is in exactly one chapter.
H2Partition ==
  \A c \in Calls :
    kind[c] = "toc" /\ pc[c] = "done" =>
      \A d \in SplitDocs(input[c]) :
        \A m \in AfterFirstH2(FindAll(Soup(input[c].docs[d].content), {"h2", "p"}), FALSE) :
          Cardinality(ChaptersWith(result[c].chapters, m)) = 1

(***************************************************************************)
(* download_chapter (download.py:29-199) and the client that polls          *)
(* get_download_progress (verify_progress.py:13-37).  A request stands at   *)
(* "start", then at "fetch_chapter" while it awaits the chapter; it ends at *)
(* "raised 500" or "raised 404", or returns a StreamingResponse and stands  *)
(* at "streaming", at "content.json" and at "audio/title.mp3" while the ZIP *)
(* is streamed, and at "aborted" when the stream has failed.                *)
(***************************************************************************)
MaxParagraphs == 2

\* download.py:40-45, 62-67: the entries download_chapter stores
Initializing == [status |-> "initializing", total |-> 0, current |-> 0, percent |-> 0]
Processing(n) == [status |-> "processing", total |-> n, current |-> 0, percent |-> 0]

\* download.py:54, 188-190, 192-196: progress_store[progress_id]["status"] = "error",
\* when the request carries an id that has an entry
WithError(store, id) ==
  IF id # None /\ store[id] # NoProgress
  THEN [store EXCEPT ![id] = [@ EXCEPT !.status = "error"]]
  ELSE store

\* tts.py:15-76: text_to_speech_dual_voice is a coroutine function that returns
\* a StreamingResponse and holds no yield, so the value of a call is a
\* coroutine and `async for chunk in text_to_speech_dual_voice(...)`
\* (download.py:72, 98) raises TypeError before any chunk is produced
TtsCallIsAsyncIterable == FALSE

InitDownload ==
  /\ debug_file = NoBook
  /\ temp_files = <<>>
  /\ temp_path = [c \in Calls |-> 0]
  /\ book = [c \in Calls |-> NoBook]
  /\ result = [c \in Calls |-> NoResult]
  /\ used_uuids = {}
  /\ validation = [c \in Calls |-> NoVerdict]
  /\ returned = [c \in Calls |-> NotReturned]
  /\ kind = [c \in Calls |-> "none"]
  /\ input = [c \in Calls |-> NoBook]
  /\ pc = [c \in Calls |-> "done"]
  /\ progress_store = [id \in ProgressIds |-> NoProgress]
  /\ progress_id \in [Requests -> ProgressIds \cup {None}]
  /\ request = [r \in Requests |-> "start"]
  /\ total_paragraphs = [r \in Requests |-> 0]
  /\ members = [r \in Requests |-> <<>>]
  /\ polled = [id \in ProgressIds |-> "unseen"]

\* download.py:38-49: the entry is initialized and fetch_chapter is awaited
InitializeProgress(r) ==
  /\ request[r] = "start"
  /\ progress_store' =
       IF progress_id[r] # None
       THEN [progress_store EXCEPT ![progress_id[r]] = Initializing]
       ELSE progress_store
  /\ request' = [request EXCEPT ![r] = "fetch_chapter"]
  /\ UNCHANGED <<epubvars, progress_id, total_paragraphs, members, polled>>

\* novels.py:322-356, download.py:187-190: fetch_chapter raises HTTPException
FetchRaises(r) ==
  /\ request[r] = "fetch_chapter"
  /\ progress_store' = WithError(progress_store, progress_id[r])
  /\ request' = [request EXCEPT ![r] = "raised 500"]
  /\ UNCHANGED <<epubvars, progress_id, total_paragraphs, members, polled>>

\* download.py:52-55, 187-190: the chapter has no paragraphs
FetchEmpty(r) ==
  /\ request[r] = "fetch_chapter"
  /\ progress_store' = WithError(progress_store, progress_id[r])
  /\ request' = [request EXCEPT ![r] = "raised 404"]
  /\ total_paragraphs' = [total_paragraphs EXCEPT ![r] = 0]
  /\ UNCHANGED <<epubvars, progress_id, members, polled>>

\* download.py:57-67, 181-185: the chapter has n paragraphs; the entry is
\* updated and the StreamingResponse is returned
FetchReturns(r, n) ==
  /\ request[r] = "fetch_chapter"
  /\ progress_store' =
       IF progress_id[r] # None
       THEN [progress_store EXCEPT ![progress_id[r]] = Processing(n)]
       ELSE progress_store
  /\ total_paragraphs' = [total_paragraphs EXCEPT ![r] = n]
  /\ request' = [request EXCEPT ![r] = "streaming"]
  /\ UNCHANGED <<epubvars, progress_id, members, polled>>

\* download.py:77-92: member_generator yields content.json
YieldContent(r) ==
  /\ request[r] = "streaming"
  /\ members' = [members EXCEPT ![r] = Append(@, "content.json")]
  /\ request' = [request EXCEPT ![r] = "content.json"]
  /\ UNCHANGED <<epubvars, progress_store, progress_id, total_paragraphs, polled>>

\* download.py:94-106: after content.json is written, member_generator yields
\* audio/title.mp3
YieldTitle(r) ==
  /\ request[r] = "content.json"
  /\ members' = [members EXCEPT ![r] = Append(@, "audio/title.mp3")]
  /\ request' = [request EXCEPT ![r] = "audio/title.mp3"]
  /\ UNCHANGED <<epubvars, progress_store, progress_id, total_paragraphs, polled>>

\* download.py:96-99: the ZIP writer iterates title_audio_stream, which raises
\* TypeError; the exception leaves async_stream_zip in the task that sends the
\* response, after download_chapter has returned, so that neither of its
\* except clauses (187-199) runs; member_generator is left at its yield, before
\* the try of the sliding window (113)
TitleStreamRaises(r) ==
  /\ request[r] = "audio/title.mp3"
  /\ ~TtsCallIsAsyncIterable
  /\ request' = [request EXCEPT ![r] = "aborted"]
  /\ UNCHANGED <<epubvars, progress_store, progress_id, total_paragraphs, members, polled>>

\* verify_progress.py:13-37 with download.py:19-27: one round of poll_progress
Poll(id) ==
  /\ polled[id] # "stopped"
  /\ polled' = [polled EXCEPT ![id] =
                  IF progress_store[id].status \in {"completed", "error"} THEN "stopped"
                  ELSE progress_store[id].status]
  /\ UNCHANGED <<epubvars, progress_store, progress_id, request, total_paragraphs, members>>

Handle(r) ==
  \/ InitializeProgress(r)
  \/ FetchRaises(r)
  \/ FetchEmpty(r)
  \/ \E n \in 1..MaxParagraphs : FetchReturns(r, n)
  \/ YieldContent(r)
  \/ YieldTitle(r)
  \/ TitleStreamRaises(r)

NextDownload ==
  \/ \E r \in Requests : Handle(r)
  \/ \E id \in ProgressIds : Poll(id)

SpecDownload == InitDownload /\ [][NextDownload]_vars

\* the event loop runs every handler that can take a step, and the polling
\* thread keeps polling
SpecDownloadLive ==
  /\ SpecDownload
  /\ \A r \in Requests : WF_vars(Handle(r))
  /\ \A id \in ProgressIds : WF_vars(Poll(id))

\* C28: once download_chapter has initialized the entry of a progress id, its
\* status eventually is "completed" or "error".
ProgressTerminates ==
  \A id \in ProgressIds :
    (progress_store[id] # NoProgress) ~> (progress_store[id].status \in {"completed", "error"})

\* the members of a complete ZIP of a chapter of n paragraphs
ExpectedMembers(n) ==
  <<"content.json", "audio/title.mp3">>
    \o [i \in 1..n |-> "audio/" \o ToString(i - 1) \o ".mp3"]

=============================================================================
